---- MODULE Spec2Model ----
(***************************************************************************)
(* A ledger node: the persisted block store (hash -> block, LAST), the     *)
(* in-memory tip and the UTXO index store.  Wallets build and sign         *)
(* transfers against the index; a miner puts them into blocks.  Two nodes  *)
(* run the same code; a block one node stores can be handed to the other   *)
(* node's add_block, as the Block message handler does.  Each node runs a  *)
(* server: a directory of known peers with a failure counter each, a queue *)
(* of block hashes in transit, a mempool, and handlers for the messages    *)
(* peers send.                                                             *)
(*                                                                         *)
(* Encoding.  A byte string or a Rust String is a tuple; the empty string  *)
(* and the empty Vec<u8> are <<>>.  A SHA-256 digest is modelled as the    *)
(* hashed content itself (a collision-free hash), so a transaction id and  *)
(* a block hash are tuples too.  An Ed25519 signature made with the secret *)
(* key of k over message m is <<"sig", k, m>>.                             *)
(***************************************************************************)
EXTENDS Integers, Sequences, FiniteSets, Bags, TLC

VARIABLES db, last, tip, utxo, nonce, res,
          node_address, known_nodes, blocks_in_transit, mempool,
          msgs, sent, ticks, pc, rwlock

\* where each task spawned on the runtime is, and who holds the RwLock
\* around the Server
tasks == <<pc, rwlock>>

\* the fields of Server and ServerInner, the messages in flight, the sends
\* the last operation attempted and the timer ticks so far
srv == <<node_address, known_nodes, blocks_in_transit, mempool,
         msgs, sent, ticks, pc, rwlock>>

vars == <<db, last, tip, utxo, nonce, res, node_address, known_nodes,
          blocks_in_transit, mempool, msgs, sent, ticks, pc, rwlock>>

----------------------------------------------------------------------------
(* Bounds of the model *)

\* number of blocks mined by mine_block, all nodes together
MaxMined == 3
\* number of transactions of a batch that are not the coinbase
MaxBatch == 1
\* number of times the interval timers fire, all nodes together
MaxTicks == 2
\* number of connections of one handler that can be refused
MaxSends == 2
\* a Tx message is taken while the mempool holds fewer entries than this
MaxPool == 2
\* the blocks the peer of the miner mines on the genesis block
MaxPeerBlocks == 1
\* the height of the chain a joining node finds at the bootstrap node
MaxHeight == 2

----------------------------------------------------------------------------
(* Program constants and the small input sets *)

SUBSIDY == 10

Nodes == {"A", "B"}

\* key pairs held by wallets
Wallets == {"W", "X"}

\* the requested amounts of a transfer
Amounts == {-3, 0, 4, 10}

NoHash == <<>>

\* the address of the bootstrap node, and the addresses servers listen on
KNOWN_NODE1 == "K"

Addrs == {"K", "P", "Q"}

VERSION == 1

\* the address of create_genesis_block; no wallet holds its key
FixedAddress == <<"addr", "G">>

\* Wallet::get_address - the encoding of the double hash of the public key
WalletAddress(k) == <<"addr", k>>

\* Address::decode(address).body - the public key hash an address encodes
DecodeBody(address) == <<"pkh", address[2]>>

PublicKey(k) == <<"pk", k>>

----------------------------------------------------------------------------
(* tx.rs *)

TXOutputNew(value, address) ==
    [value |-> value, pub_key_hash |-> DecodeBody(address)]

can_be_unlock_with(out, unlocking_data) == out.pub_key_hash = unlocking_data

----------------------------------------------------------------------------
(* transaction.rs *)

\* Transaction::hash - SHA-256 of the serialized transaction with the id
\* blanked: everything but the id is hashed
TxHash(vin, vout) == <<vin, vout>>

\* is_coinbase that asks for one input at most and does not look at it
is_coinbase_loose(tx) == Len(tx.vin) <= 1

is_coinbase(tx) ==
    /\ Len(tx.vin) = 1
    /\ tx.vin[1].txid = NoHash
    /\ tx.vin[1].vout = -1

\* Transaction::new_coinbase.  rnd stands for the 32 random bytes drawn when
\* data is empty (0 otherwise); data is then replaced by "Reward to <to>".
new_coinbase(to, data, rnd) ==
    LET d    == IF data = "" THEN <<"Reward to", to>> ELSE <<data>>
        vin  == << [txid |-> NoHash, vout |-> -1, signature |-> <<>>,
                    pub_key |-> <<"data", d, rnd>>] >>
        vout == << TXOutputNew(SUBSIDY, to) >>
    IN  [id |-> TxHash(vin, vout), vin |-> vin, vout |-> vout]

trim_copy_vin(tx) ==
    [i \in 1..Len(tx.vin) |->
        [txid |-> tx.vin[i].txid, vout |-> tx.vin[i].vout,
         signature |-> <<>>, pub_key |-> <<>>]]

\* SigHash over the transaction as it is: the signatures and public keys of
\* the inputs are hashed with it
SigHash_untrimmed(tx, i, prev_pkh) ==
    TxHash([tx.vin EXCEPT ![i].pub_key = prev_pkh], tx.vout)

\* The hash signed for input i (1-based here): the trimmed copy with the
\* referenced output's pub_key_hash in the pub_key slot of input i.
SigHash(tx, i, prev_pkh) ==
    TxHash([trim_copy_vin(tx) EXCEPT ![i].pub_key = prev_pkh], tx.vout)

\* prev_tx.vout[vin.vout as usize] panics when the index is out of range
VoutInRange(prev_tx, idx) == idx >= 0 /\ idx < Len(prev_tx.vout)

\* Transaction::verify.  prev(id) is the previous transaction found for id.
\* Result: "true", "false", "err" or "panic".
RECURSIVE VerifyInputs(_, _, _)
VerifyInputs(tx, prev, i) ==
    IF i > Len(tx.vin) THEN "true"
    ELSE LET inp  == tx.vin[i]
             ptx  == prev[inp.txid]
         IN  IF ~VoutInRange(ptx, inp.vout) THEN "panic"
             ELSE IF ~(Len(inp.pub_key) = 2 /\ inp.pub_key[1] = "pk")
                     \/ Len(inp.signature) # 3 THEN "err"
             ELSE IF inp.signature #
                       <<"sig", inp.pub_key[2],
                         SigHash(tx, i, ptx.vout[inp.vout + 1].pub_key_hash)>>
                  THEN "false"
             ELSE VerifyInputs(tx, prev, i + 1)

verify(tx, prev) ==
    IF is_coinbase(tx) THEN "true"
    ELSE IF \E i \in 1..Len(tx.vin) : prev[tx.vin[i].txid].id = NoHash
         THEN "err"
    ELSE VerifyInputs(tx, prev, 1)

\* Transaction::sign with the secret key of k.  Result: [ret, tx].
sign(tx, k, prev) ==
    IF is_coinbase(tx) THEN [ret |-> "ok", tx |-> tx]
    ELSE IF \E i \in 1..Len(tx.vin) : prev[tx.vin[i].txid].id = NoHash
         THEN [ret |-> "err", tx |-> tx]
    ELSE IF \E i \in 1..Len(tx.vin) :
                ~VoutInRange(prev[tx.vin[i].txid], tx.vin[i].vout)
         THEN [ret |-> "panic", tx |-> tx]
    ELSE [ret |-> "ok",
          tx  |-> [tx EXCEPT !.vin =
                     [i \in 1..Len(tx.vin) |->
                        [tx.vin[i] EXCEPT !.signature =
                           <<"sig", k,
                             SigHash(tx, i,
                               prev[tx.vin[i].txid]
                                   .vout[tx.vin[i].vout + 1].pub_key_hash)>>]]]]

----------------------------------------------------------------------------
(* Block *)

\* Block::new_block: the hash is a function of the previous hash, the
\* transactions and the nonce the proof of work finds for them.
NewBlock(transactions, prev_hash, height) ==
    [hash |-> <<"blk", prev_hash, transactions>>, prev_hash |-> prev_hash,
     height |-> height, transactions |-> transactions]

new_genesis_block(cbtx) == NewBlock(<<cbtx>>, NoHash, 0)

----------------------------------------------------------------------------
(* blockchain.rs *)

\* BlockchainIter: the blocks from hash h back along prev_hash, until a hash
\* that is not in the store
RECURSIVE IterFrom(_, _, _)
IterFrom(d, h, fuel) ==
    IF fuel = 0 \/ h \notin DOMAIN d THEN <<>>
    ELSE <<d[h]>> \o IterFrom(d, d[h].prev_hash, fuel - 1)

\* Blockchain::iter - starts at the in-memory tip
iter(d, t) == IterFrom(d, t, Cardinality(DOMAIN d))

RECURSIVE Flatten(_)
Flatten(blocks) ==
    IF blocks = <<>> THEN <<>>
    ELSE Head(blocks).transactions \o Flatten(Tail(blocks))

\* the transactions the iterator yields, block by block
ChainTxs(d, t) == Flatten(iter(d, t))

get_block_hashes(d, t) ==
    LET blocks == iter(d, t) IN [i \in 1..Len(blocks) |-> blocks[i].hash]

\* Blockchain::get_best_height - reads LAST from the store
get_best_height(d, l) == IF l = NoHash THEN -1 ELSE d[l].height

\* Blockchain::find_transaction over the transactions txs the iterator
\* yields: the first transaction with that id
TxFound(txs, id) == \E i \in 1..Len(txs) : txs[i].id = id

find_transaction(txs, id) ==
    LET i == CHOOSE i \in 1..Len(txs) :
                 /\ txs[i].id = id
                 /\ \A j \in 1..(i - 1) : txs[j].id # id
    IN  txs[i]

\* Blockchain::get_prev_txs
PrevTxsFound(txs, tx) == \A i \in 1..Len(tx.vin) : TxFound(txs, tx.vin[i].txid)

get_prev_txs(txs, tx) ==
    [id \in {tx.vin[i].txid : i \in 1..Len(tx.vin)} |-> find_transaction(txs, id)]

\* verify_transacton that answers false, not an error, when a previous
\* transaction is not found
verify_transacton_lenient(d, t, tx) ==
    LET txs == ChainTxs(d, t)
    IN  IF is_coinbase(tx) THEN "true"
        ELSE IF ~PrevTxsFound(txs, tx) THEN "false"
        ELSE verify(tx, get_prev_txs(txs, tx))

\* Blockchain::verify_transacton
verify_transacton(d, t, tx) ==
    LET txs == ChainTxs(d, t)
    IN  IF is_coinbase(tx) THEN "true"
        ELSE IF ~PrevTxsFound(txs, tx) THEN "err"
        ELSE verify(tx, get_prev_txs(txs, tx))

\* Blockchain::sign_transacton
sign_transacton(d, t, tx, k) ==
    LET txs == ChainTxs(d, t)
    IN  IF ~PrevTxsFound(txs, tx) THEN [ret |-> "err", tx |-> tx]
        ELSE sign(tx, k, get_prev_txs(txs, tx))

\* the outputs of tx whose index is not in spent, in order
UnspentOf(tx, spent) ==
    LET F[i \in 0..Len(tx.vout)] ==
            IF i = 0 THEN <<>>
            ELSE IF <<tx.id, i - 1>> \in spent THEN F[i - 1]
            ELSE Append(F[i - 1], tx.vout[i])
    IN  F[Len(tx.vout)]

\* Blockchain::find_utxo - the scan from the tip to the genesis block
RECURSIVE FindUtxoScan(_, _, _, _)
FindUtxoScan(txs, k, utxos, spent) ==
    IF k > Len(txs) THEN utxos
    ELSE LET tx     == txs[k]
             keep   == UnspentOf(tx, spent)
             utxos2 == IF keep = <<>> THEN utxos
                       ELSE IF tx.id \in DOMAIN utxos
                            THEN [utxos EXCEPT ![tx.id] = @ \o keep]
                       ELSE (tx.id :> keep) @@ utxos
             spent2 == IF is_coinbase(tx) THEN spent
                       ELSE spent \cup {<<tx.vin[i].txid, tx.vin[i].vout>> :
                                           i \in 1..Len(tx.vin)}
         IN  FindUtxoScan(txs, k + 1, utxos2, spent2)

find_utxo(d, t) == FindUtxoScan(ChainTxs(d, t), 1, <<>>, {})

----------------------------------------------------------------------------
(* utxoset.rs *)

\* the orders in which the store can yield a set of keys (the key order of
\* the store is the order of the digests)
ScanOrders(S) ==
    {s \in [1..Cardinality(S) -> S] : \A i, j \in 1..Cardinality(S) :
                                          s[i] = s[j] => i = j}

\* the keys of the index that hold an output of pub_key_hash: the other
\* entries do not change what the scan returns
Matching(index, pkh) ==
    {id \in DOMAIN index :
        \E i \in 1..Len(index[id]) : can_be_unlock_with(index[id][i], pkh)}

\* UTXOSet::find_spendable_outputs over the entries in the order given.
\* Result: [acc, sel], sel the sequence of <<txid, out_idx>> selected.
RECURSIVE SpendScan(_, _, _, _, _, _)
SpendScan(index, order, pkh, amount, e, st) ==
    IF e > Len(order) THEN st
    ELSE LET txid == order[e]
             outs == index[txid]
             G[i \in 0..Len(outs)] ==
                 IF i = 0 THEN st
                 ELSE IF can_be_unlock_with(outs[i], pkh) /\ G[i - 1].acc < amount
                      THEN [acc |-> G[i - 1].acc + outs[i].value,
                            sel |-> Append(G[i - 1].sel, <<txid, i - 1>>)]
                 ELSE G[i - 1]
         IN  SpendScan(index, order, pkh, amount, e + 1, G[Len(outs)])

\* find_spendable_outputs without the test that ends the selection: every
\* matching output is returned, the total is that of the first ones
find_spendable_outputs_unbounded(index, order, pkh, amount) ==
    [acc |-> SpendScan(index, order, pkh, amount, 1,
                       [acc |-> 0, sel |-> <<>>]).acc,
     sel |-> SpendScan(index, order, pkh, 2147483647, 1,
                       [acc |-> 0, sel |-> <<>>]).sel]

find_spendable_outputs(index, order, pkh, amount) ==
    SpendScan(index, order, pkh, amount, 1, [acc |-> 0, sel |-> <<>>])

\* the outputs of an entry but the one at position idx (0-based)
RemoveAt(outs, idx) ==
    LET F[i \in 0..Len(outs)] ==
            IF i = 0 THEN <<>>
            ELSE IF i - 1 = idx THEN F[i - 1]
            ELSE Append(F[i - 1], outs[i])
    IN  F[Len(outs)]

Remove(index, id) == [x \in (DOMAIN index) \ {id} |-> index[x]]

Insert(index, id, v) == (id :> v) @@ index

\* UTXOSet::update, the inputs of one transaction.  st = [ret, index]; the
\* unwrap of a missing entry panics, with the writes made so far kept.
RECURSIVE UpdateInputs(_, _, _)
UpdateInputs(tx, i, st) ==
    IF i > Len(tx.vin) \/ st.ret # "ok" THEN st
    ELSE LET inp == tx.vin[i]
         IN  IF inp.txid \notin DOMAIN st.index
             THEN [st EXCEPT !.ret = "panic"]
             ELSE LET update_outputs == RemoveAt(st.index[inp.txid], inp.vout)
                  IN  UpdateInputs(tx, i + 1,
                        [st EXCEPT !.index =
                           IF update_outputs = <<>> THEN Remove(@, inp.txid)
                           ELSE Insert(@, inp.txid, update_outputs)])

RECURSIVE UpdateTxs(_, _, _)
UpdateTxs(txs, k, st) ==
    IF k > Len(txs) \/ st.ret # "ok" THEN st
    ELSE LET tx  == txs[k]
             st1 == IF is_coinbase(tx) THEN st ELSE UpdateInputs(tx, 1, st)
         IN  UpdateTxs(txs, k + 1,
                IF st1.ret # "ok" THEN st1
                ELSE [st1 EXCEPT !.index = Insert(@, tx.id, tx.vout)])

update(index, block) ==
    UpdateTxs(block.transactions, 1, [ret |-> "ok", index |-> index])

----------------------------------------------------------------------------
(* blockchain.rs: the operations that write the store.  A chain state is   *)
(* c = [db, last, tip]; an operation returns [ret, c] and, for mine_block, *)
(* the new block.                                                          *)

Range(f) == {f[i] : i \in DOMAIN f}

EmptyChain == [db |-> <<>>, last |-> NoHash, tip |-> NoHash]

Genesis(c, cbtx) ==
    LET genesis == new_genesis_block(cbtx)
    IN  [db   |-> (genesis.hash :> genesis) @@ c.db,
         last |-> genesis.hash,
         tip  |-> genesis.hash]

\* Blockchain::new that creates the genesis block whatever the store holds
new_always(c) ==
    Genesis(c, new_coinbase(FixedAddress, "Genesis Block Reward", 0))

\* Blockchain::new with create_genesis_block
new(c) ==
    IF c.last = NoHash
    THEN Genesis(c, new_coinbase(FixedAddress, "Genesis Block Reward", 0))
    ELSE [c EXCEPT !.tip = c.last]

\* Blockchain::create_blockchain: the store directory is removed first
create_blockchain(address) ==
    Genesis(EmptyChain, new_coinbase(address, "The Times", 0))

\* the first verification result of the batch that is not true, or "true"
RECURSIVE VerifyBatch(_, _, _)
VerifyBatch(c, batch, i) ==
    IF i > Len(batch) THEN "true"
    ELSE LET v == verify_transacton(c.db, c.tip, batch[i])
         IN  IF v = "true" THEN VerifyBatch(c, batch, i + 1) ELSE v

\* mine_block without the verification loop
mine_block_unverified(c, transactions) ==
    LET newblock == NewBlock(transactions, c.last,
                             get_best_height(c.db, c.last) + 1)
    IN  IF c.last = NoHash
        THEN [ret |-> "panic", c |-> c, block |-> <<>>]
        ELSE [ret |-> "ok",
              c |-> [db   |-> (newblock.hash :> newblock) @@ c.db,
                     last |-> newblock.hash,
                     tip  |-> newblock.hash],
              block |-> newblock]

\* Blockchain::mine_block
mine_block(c, transactions) ==
    LET v        == VerifyBatch(c, transactions, 1)
        newblock == NewBlock(transactions, c.last,
                             get_best_height(c.db, c.last) + 1)
    IN  IF v # "true"
        THEN [ret |-> IF v = "panic" THEN "panic" ELSE "err", c |-> c,
              block |-> <<>>]
        ELSE IF c.last = NoHash
        THEN [ret |-> "panic", c |-> c, block |-> <<>>]
        ELSE [ret |-> "ok",
              c |-> [db   |-> (newblock.hash :> newblock) @@ c.db,
                     last |-> newblock.hash,
                     tip  |-> newblock.hash],
              block |-> newblock]

\* add_block without its two guards: the block is written and becomes the
\* tip whether its hash is known or not and whatever its height
add_block_unguarded(c, block) ==
    [db   |-> (block.hash :> block) @@ c.db,
     last |-> block.hash,
     tip  |-> block.hash]

\* add_block that moves the tip to a block as high as the best one too
add_block_geq(c, block) ==
    IF block.hash \in DOMAIN c.db THEN c
    ELSE LET d == (block.hash :> block) @@ c.db
         IN  IF block.height >= get_best_height(d, c.last)
             THEN [db |-> d, last |-> block.hash, tip |-> block.hash]
             ELSE [c EXCEPT !.db = d]

\* Blockchain::add_block
add_block(c, block) ==
    IF block.hash \in DOMAIN c.db THEN c
    ELSE LET d == (block.hash :> block) @@ c.db
         IN  IF block.height > get_best_height(d, c.last)
             THEN [db |-> d, last |-> block.hash, tip |-> block.hash]
             ELSE [c EXCEPT !.db = d]

----------------------------------------------------------------------------
(* The state machine *)

\* Server::mining_address of node n: the address of the first wallet of
\* the node, a wallet that makes no transfer here
MiningAddress(n) == <<"addr", n>>

Chain(n) == [db |-> db[n], last |-> last[n], tip |-> tip[n]]

SetChain(n, c) ==
    /\ db' = [db EXCEPT ![n] = c.db]
    /\ last' = [last EXCEPT ![n] = c.last]
    /\ tip' = [tip EXCEPT ![n] = c.tip]

\* the operation that ran last, the node it ran on, what it returned and the
\* branch it returned from
Result(op, n, ret, branch) ==
    [op |-> op, node |-> n, ret |-> ret, branch |-> branch]

\* the tasks of the process of a node: two connections the accept loop
\* spawned, the interval timer, a call of the application
Connections == {"c1", "c2"}

Tasks == Connections \cup {"timer", "app"}

\* a task that is not spawned, or sleeps until its interval ends
Idle == [at |-> "idle", job |-> <<>>]

\* Server::new on the ports given: the bootstrap node is the one known
\* peer, nothing is in transit, the mempool is empty
ServerNew(addresses) ==
    /\ pc = [t \in Tasks |-> Idle]
    /\ rwlock = [w |-> "none", r |-> {}]
    /\ node_address = addresses
    /\ known_nodes = [n \in Nodes |-> (KNOWN_NODE1 :> 0)]
    /\ blocks_in_transit = [n \in Nodes |-> <<>>]
    /\ mempool = [n \in Nodes |-> <<>>]
    /\ msgs = EmptyBag
    /\ sent = <<>>
    /\ ticks = [n \in Nodes |-> 0]

\* The state of Blockchain::default_empty and of store directories that do
\* not exist yet: no block, no LAST, an empty tip and an empty index.
EmptyStores ==
    /\ db = [n \in Nodes |-> <<>>]
    /\ last = [n \in Nodes |-> NoHash]
    /\ tip = [n \in Nodes |-> NoHash]
    /\ utxo = [n \in Nodes |-> <<>>]
    /\ nonce = 0
    /\ res = Result("init", "A", "ok", "")

Init == EmptyStores /\ ServerNew([A |-> "K", B |-> "P"])

\* the blocks mined so far: the stored blocks that are no genesis block
Mined == Cardinality({h \in UNION {DOMAIN db[n] : n \in Nodes} :
                         h[2] # NoHash})

\* the server and the wallet screens of a node run once initialize_async
\* has opened or created its chain
Started(n) == last[n] # NoHash

\* MyApp::initialize_async: open or create the chain, then reindex
Startup(n) ==
    LET c == new(Chain(n))
    IN  /\ SetChain(n, c)
        /\ utxo' = [utxo EXCEPT ![n] = find_utxo(c.db, c.tip)]
        /\ res' = Result("new", n, "ok", "")
        /\ UNCHANGED nonce

\* MyApp::initialize_async with create_blockchain for the address of k
StartupCustom(n, k) ==
    /\ db[n] = <<>>
    /\ LET c == create_blockchain(WalletAddress(k))
       IN  /\ SetChain(n, c)
           /\ utxo' = [utxo EXCEPT ![n] = find_utxo(c.db, c.tip)]
    /\ res' = Result("create_blockchain", n, "ok", "")
    /\ UNCHANGED nonce

\* Transaction::new_utxo from the wallet of k, against the index and the
\* chain of node n, the index read in the order given.  Result: [ret, tx].
new_utxo(n, k, to, amount, order) ==
    LET pub_key_hash == DecodeBody(WalletAddress(k))
        acc_v == find_spendable_outputs(utxo[n], order, pub_key_hash, amount)
        vin   == [i \in 1..Len(acc_v.sel) |->
                     [txid |-> acc_v.sel[i][1], vout |-> acc_v.sel[i][2],
                      signature |-> <<>>, pub_key |-> PublicKey(k)]]
        vout  == <<TXOutputNew(amount, to)>> \o
                 (IF acc_v.acc > amount
                  THEN <<TXOutputNew(acc_v.acc - amount, WalletAddress(k))>>
                  ELSE <<>>)
        tx    == [id |-> TxHash(vin, vout), vin |-> vin, vout |-> vout]
        s     == sign_transacton(db[n], tip[n], tx, k)
    IN  IF acc_v.acc < amount THEN [ret |-> "err", tx |-> <<>>]
        ELSE IF s.ret # "ok" THEN [ret |-> s.ret, tx |-> <<>>]
        ELSE s

Orders(n, k) == ScanOrders(Matching(utxo[n], DecodeBody(WalletAddress(k))))

\* MyApp::send_transaction, mine_now = false: the transaction is built and
\* sent to the peers; no store of the node changes
SendTransaction(n, k, to, amount) ==
    /\ Started(n)
    /\ \E order \in Orders(n, k) :
           /\ res' = Result("new_utxo", n,
                            new_utxo(n, k, to, amount, order).ret, "")
           /\ UNCHANGED <<db, last, tip, utxo, nonce>>

\* MyApp::send_transaction, mine_now = true: the transaction is built, mined
\* at once with a coinbase for the sender, and the index updated
SendTransactionMineNow(n, k, to, amount) ==
    /\ Started(n)
    /\ Mined < MaxMined
    /\ \E order \in Orders(n, k) :
        LET r  == new_utxo(n, k, to, amount, order)
            m  == mine_block(Chain(n),
                     <<new_coinbase(WalletAddress(k), "reward!", 0), r.tx>>)
            u  == update(utxo[n], m.block)
        IN  IF r.ret # "ok"
            THEN /\ res' = Result("new_utxo", n, r.ret, "")
                 /\ UNCHANGED <<db, last, tip, utxo, nonce>>
            ELSE IF m.ret # "ok"
            THEN /\ SetChain(n, m.c)
                 /\ res' = Result("mine_block", n, m.ret, "")
                 /\ UNCHANGED <<utxo, nonce>>
            ELSE /\ SetChain(n, m.c)
                 /\ utxo' = [utxo EXCEPT ![n] = u.index]
                 /\ res' = Result("update", n, u.ret, "")
                 /\ UNCHANGED nonce

\* What a sender other than a wallet of this model can make of a signed
\* transaction: one byte of the first signature changed, the first
\* signature left out, the first input pointed at an id no chain holds, the
\* first input pointed at an output its transaction does not have.
Tamper(tx, kind) ==
    IF tx.vin = <<>> THEN tx
    ELSE IF kind = "flip" THEN [tx EXCEPT !.vin[1].signature[1] = "bad"]
    ELSE IF kind = "strip" THEN [tx EXCEPT !.vin[1].signature = <<>>]
    ELSE IF kind = "unknown" THEN [tx EXCEPT !.vin[1].txid = <<"unknown">>]
    ELSE [tx EXCEPT !.vin[1].vout = 2]

TamperKinds == {"flip", "strip", "unknown", "index"}

\* the transactions the wallets can build on node n now
Built(n) ==
    {r.tx : r \in {x \in {new_utxo(n, k, WalletAddress(to), a, order) :
                             k \in Wallets, to \in Wallets, a \in Amounts,
                             order \in UNION {Orders(n, w) : w \in Wallets}} :
                      x.ret = "ok"}}

\* the transfers on the chain of node n: anyone can send them again
OnChain(n) == {tx \in Range(ChainTxs(db[n], tip[n])) : ~is_coinbase(tx)}

\* the transactions a Tx message can bring to the miner of node n
Candidates(n) ==
    Built(n) \cup OnChain(n)
        \cup {Tamper(tx, kind) : tx \in Built(n), kind \in TamperKinds}

\* Blockchain::mine_block as the miner of Server::handle_tx calls it: a
\* fresh coinbase for the miner is pushed after the transactions txs, the
\* block mined and the index rebuilt.  txs is any batch a caller can hand
\* to mine_block: the batch is verified by mine_block itself, and what
\* mine_block wrote is kept whatever it returns.
MinerStep(n, txs) ==
    /\ Started(n)
    /\ Mined < MaxMined
    /\ LET cbtx == new_coinbase(MiningAddress(n), "", nonce + 1)
           m    == mine_block(Chain(n), Append(txs, cbtx))
       IN  IF m.ret # "ok"
           THEN /\ SetChain(n, m.c)
                /\ res' = Result("mine_block", n, m.ret, "")
                /\ UNCHANGED <<utxo, nonce>>
           ELSE /\ SetChain(n, m.c)
                /\ utxo' = [utxo EXCEPT ![n] = find_utxo(m.c.db, m.c.tip)]
                /\ nonce' = nonce + 1
                /\ res' = Result("mine_block", n, "ok", "")

\* Server::handle_block for a block a peer sent: add_block, then the index
\* is rebuilt unless more blocks are in transit
HandleBlock(n, block, in_transit) ==
    LET c == add_block(Chain(n), block)
    IN  /\ Started(n)
        /\ SetChain(n, c)
        /\ utxo' = [utxo EXCEPT ![n] = IF in_transit THEN @
                                        ELSE find_utxo(c.db, c.tip)]
        /\ res' = Result("add_block", n, "ok",
                         IF block.hash \in DOMAIN db[n] THEN "known"
                         ELSE IF c.tip # tip[n] THEN "tip" ELSE "stored")
        /\ UNCHANGED nonce

\* the blocks some node stores: what a Block message can carry
Stored == UNION {{db[n][h] : h \in DOMAIN db[n]} : n \in Nodes}

\* The ledger of one node: chain, index and wallets
Next ==
    \/ Startup("A") /\ UNCHANGED srv
    \/ StartupCustom("A", "W") /\ UNCHANGED srv
    \/ \E m \in 0..MaxBatch :
          \E txs \in [1..m -> Candidates("A")] :
             MinerStep("A", txs) /\ UNCHANGED srv
    \/ \E k \in Wallets, to \in Wallets, a \in Amounts :
          SendTransaction("A", k, WalletAddress(to), a) /\ UNCHANGED srv

Spec == Init /\ [][Next]_vars

\* One node whose wallet mines each transfer at once
NextUpdate ==
    \/ Startup("A") /\ UNCHANGED srv
    \/ StartupCustom("A", "W") /\ UNCHANGED srv
    \/ \E k \in Wallets, to \in Wallets, a \in Amounts :
          SendTransactionMineNow("A", k, WalletAddress(to), a)
             /\ UNCHANGED srv

SpecUpdate == Init /\ [][NextUpdate]_vars

\* Two nodes and the blocks they pass to each other
NextSync ==
    \/ \E n \in Nodes : Startup(n) /\ UNCHANGED srv
    \/ \E n \in Nodes : MinerStep(n, <<>>) /\ UNCHANGED srv
    \/ \E n \in Nodes, b \in Stored, in_transit \in BOOLEAN :
          HandleBlock(n, b, in_transit) /\ UNCHANGED srv

SpecSync == Init /\ [][NextSync]_vars

----------------------------------------------------------------------------
(* server.rs.  A handler works on the state of its server, sv = [self,     *)
(* mining_address, c, utxo, known_nodes, blocks_in_transit, mempool,       *)
(* nonce, sent, ret, branch]: sent lists the connections it attempted, ret *)
(* and branch say how it returned.  conn says of each connection the       *)
(* handler attempts, the first, the second, ..., whether it is accepted.   *)

\* the keys of a HashMap in the order an iteration yields them
RECURSIVE Keys(_)
Keys(S) ==
    IF S = {} THEN <<>>
    ELSE LET x == CHOOSE y \in S : TRUE IN <<x>> \o Keys(S \ {x})

\* Server::remove_node
remove_node(nodes, addr) == [a \in (DOMAIN nodes) \ {addr} |-> nodes[a]]

\* send_data that leaves the counter as it is when the connection succeeds
send_data_no_reset(sv, addr, data, conn) ==
    IF addr = sv.self THEN sv
    ELSE IF conn[Len(sv.sent) + 1]
    THEN [sv EXCEPT
            !.sent = Append(@, [to |-> addr, data |-> data, ok |-> TRUE])]
    ELSE [sv EXCEPT
            !.known_nodes =
                IF addr \notin DOMAIN @ THEN @
                ELSE IF @[addr] >= 3
                     THEN [a \in (DOMAIN @) \ {addr} |-> @[a]]
                ELSE [@ EXCEPT ![addr] = @ + 1],
            !.sent = Append(@, [to |-> addr, data |-> data, ok |-> FALSE])]

\* TcpStream::connect for the attempt of that number: Ok or Err
Accepted(conn, attempt) == attempt \notin DOMAIN conn \/ conn[attempt]

\* Server::send_data: nothing is sent to the own address; a connection that
\* succeeds resets the counter of a known peer and the data is written; one
\* that fails counts against the peer, or removes it when its counter has
\* reached 3
send_data(sv, addr, data, conn) ==
    IF addr = sv.self THEN sv
    ELSE IF Accepted(conn, Len(sv.sent) + 1)
    THEN [sv EXCEPT
            !.known_nodes =
                IF addr \in DOMAIN @ /\ @[addr] > 0
                THEN [@ EXCEPT ![addr] = 0] ELSE @,
            !.sent = Append(@, [to |-> addr, data |-> data, ok |-> TRUE])]
    ELSE [sv EXCEPT
            !.known_nodes =
                IF addr \notin DOMAIN @ THEN @
                ELSE IF @[addr] >= 3 THEN remove_node(@, addr)
                ELSE [@ EXCEPT ![addr] = @ + 1],
            !.sent = Append(@, [to |-> addr, data |-> data, ok |-> FALSE])]

send_block(sv, addr, b, conn) ==
    send_data(sv, addr,
              [cmd |-> "block", addr_from |-> sv.self, block |-> b], conn)

send_inv(sv, addr, kind, items, conn) ==
    send_data(sv, addr,
              [cmd |-> "inv", addr_from |-> sv.self, kind |-> kind,
               items |-> items], conn)

send_tx(sv, addr, tx, conn) ==
    send_data(sv, addr,
              [cmd |-> "tx", addr_from |-> sv.self, transaction |-> tx], conn)

send_version(sv, addr, conn) ==
    send_data(sv, addr,
              [cmd |-> "version", addr_from |-> sv.self, version |-> VERSION,
               best_height |-> get_best_height(sv.c.db, sv.c.last)], conn)

send_get_blocks(sv, addr, conn) ==
    send_data(sv, addr, [cmd |-> "getblocks", addr_from |-> sv.self], conn)

send_get_data(sv, addr, kind, id, conn) ==
    send_data(sv, addr,
              [cmd |-> "getdata", addr_from |-> sv.self, kind |-> kind,
               id |-> id], conn)

\* Server::send_addr: the directory is serialized as it is, a map from
\* address to KnownNode
send_addr(sv, addr, conn) ==
    send_data(sv, addr, [cmd |-> "addr", nodes |-> sv.known_nodes], conn)

\* one of the send functions above called for each address of addrs in turn:
\* f names the function, arg its argument
RECURSIVE SendEach(_, _, _, _, _)
SendEach(sv, addrs, f, arg, conn) ==
    IF addrs = <<>> THEN sv
    ELSE LET a  == Head(addrs)
             s1 == IF f = "send_version" THEN send_version(sv, a, conn)
                   ELSE IF f = "send_get_blocks"
                   THEN send_get_blocks(sv, a, conn)
                   ELSE IF f = "send_tx" THEN send_tx(sv, a, arg, conn)
                   ELSE IF f = "send_inv block"
                   THEN send_inv(sv, a, "block", arg, conn)
                   ELSE send_inv(sv, a, "tx", arg, conn)
         IN  SendEach(s1, Tail(addrs), f, arg, conn)

\* Server::request_blocks
request_blocks(sv, conn) ==
    SendEach(sv, Keys(DOMAIN sv.known_nodes), "send_get_blocks", <<>>, conn)

\* Server::check_and_update_blockchain_state
check_and_update_blockchain_state(sv, conn) ==
    IF get_best_height(sv.c.db, sv.c.last) = -1
    THEN [request_blocks(sv, conn) EXCEPT !.branch = "request_blocks"]
    ELSE [SendEach(sv, Keys(DOMAIN sv.known_nodes), "send_version", <<>>,
                   conn)
             EXCEPT !.branch = "version"]

\* Server::add_peer
add_peer(sv, new_peer_ip) ==
    [sv EXCEPT !.known_nodes = (new_peer_ip :> 0) @@ @]

\* send_transaction that gives up at the first connection that is refused
send_transaction_abort(sv, tx, conn) ==
    LET addrs == Keys(DOMAIN sv.known_nodes)
        F[i \in 0..Len(addrs)] ==
            IF i = 0 THEN sv
            ELSE IF F[i - 1].sent # <<>>
                    /\ ~F[i - 1].sent[Len(F[i - 1].sent)].ok
                 THEN F[i - 1]
            ELSE send_tx(F[i - 1], addrs[i], tx, conn)
    IN  F[Len(addrs)]

\* Server::send_transaction
send_transaction(sv, tx, conn) ==
    SendEach(sv, Keys(DOMAIN sv.known_nodes), "send_tx", tx, conn)

\* Server::handle_addr
RECURSIVE handle_addr(_, _)
handle_addr(sv, msg) ==
    IF msg = <<>> THEN sv
    ELSE handle_addr(add_peer(sv, Head(msg)), Tail(msg))

\* handle_block that requests the head of the queue and leaves it there
handle_block_keep_queue(sv, msg, conn) ==
    LET s1         == [sv EXCEPT !.c = add_block(sv.c, msg.block)]
        in_transit == sv.blocks_in_transit
    IN  IF Len(in_transit) > 0
        THEN [send_get_data(s1, msg.addr_from, "block", in_transit[1], conn)
                 EXCEPT !.branch = "get_data"]
        ELSE [s1 EXCEPT !.utxo = find_utxo(s1.c.db, s1.c.tip),
                        !.branch = "reindex"]

\* Server::handle_block
handle_block(sv, msg, conn) ==
    LET s1         == [sv EXCEPT !.c = add_block(sv.c, msg.block)]
        in_transit == sv.blocks_in_transit
    IN  IF Len(in_transit) > 0
        THEN [send_get_data(s1, msg.addr_from, "block", in_transit[1], conn)
                 EXCEPT !.blocks_in_transit = Tail(in_transit),
                        !.branch = "get_data"]
        ELSE [s1 EXCEPT !.utxo = find_utxo(s1.c.db, s1.c.tip),
                        !.branch = "reindex"]

\* Server::handle_get_blocks
handle_get_blocks(sv, msg, conn) ==
    send_inv(sv, msg.addr_from, "block",
             get_block_hashes(sv.c.db, sv.c.tip), conn)

\* Server::handle_get_data: the unwrap of a block or of a mempool
\* transaction that is not there panics
handle_get_data(sv, msg, conn) ==
    IF msg.kind = "block"
    THEN IF msg.id \notin DOMAIN sv.c.db THEN [sv EXCEPT !.ret = "panic"]
         ELSE send_block(sv, msg.addr_from, sv.c.db[msg.id], conn)
    ELSE IF msg.kind = "tx"
    THEN IF msg.id \notin DOMAIN sv.mempool THEN [sv EXCEPT !.ret = "panic"]
         ELSE send_tx(sv, msg.addr_from, sv.mempool[msg.id], conn)
    ELSE sv

\* handle_version that asks for blocks when the heights are equal too
handle_version_leq(sv, msg, conn) ==
    LET my_best_height == get_best_height(sv.c.db, sv.c.last)
        s1 == IF my_best_height <= msg.best_height
              THEN [send_get_blocks(sv, msg.addr_from, conn)
                       EXCEPT !.branch = "get_blocks"]
              ELSE [send_version(sv, msg.addr_from, conn)
                       EXCEPT !.branch = "version"]
        s2 == send_addr(s1, msg.addr_from, conn)
    IN  IF msg.addr_from \in DOMAIN s2.known_nodes THEN s2
        ELSE add_peer(s2, msg.addr_from)

\* Server::handle_version
handle_version(sv, msg, conn) ==
    LET my_best_height == get_best_height(sv.c.db, sv.c.last)
        s1 == IF my_best_height < msg.best_height
              THEN [send_get_blocks(sv, msg.addr_from, conn)
                       EXCEPT !.branch = "get_blocks"]
              ELSE IF my_best_height > msg.best_height
              THEN [send_version(sv, msg.addr_from, conn)
                       EXCEPT !.branch = "version"]
              ELSE [sv EXCEPT !.branch = "equal"]
        s2 == send_addr(s1, msg.addr_from, conn)
    IN  IF msg.addr_from \in DOMAIN s2.known_nodes THEN s2
        ELSE add_peer(s2, msg.addr_from)

\* handle_inv that requests the first item and forgets the others
handle_inv_no_queue(sv, msg, conn) ==
    IF msg.kind \notin {"block", "tx"} THEN sv
    ELSE IF msg.items = <<>> THEN [sv EXCEPT !.ret = "panic"]
    ELSE IF msg.kind = "block"
    THEN [send_get_data(sv, msg.addr_from, "block", msg.items[1], conn)
             EXCEPT !.branch = "block"]
    ELSE IF msg.items[1] \in DOMAIN sv.mempool
            /\ sv.mempool[msg.items[1]].id # NoHash
    THEN [sv EXCEPT !.branch = "tx known"]
    ELSE [send_get_data(sv, msg.addr_from, "tx", msg.items[1], conn)
             EXCEPT !.branch = "tx"]

\* the items of an Inv message but those equal to block_hash
RECURSIVE Without(_, _)
Without(items, block_hash) ==
    IF items = <<>> THEN <<>>
    ELSE IF Head(items) = block_hash THEN Without(Tail(items), block_hash)
    ELSE <<Head(items)>> \o Without(Tail(items), block_hash)

\* Server::handle_inv: msg.items[0] of an empty list panics
handle_inv(sv, msg, conn) ==
    IF msg.kind \notin {"block", "tx"} THEN sv
    ELSE IF msg.items = <<>> THEN [sv EXCEPT !.ret = "panic"]
    ELSE IF msg.kind = "block"
    THEN [send_get_data(sv, msg.addr_from, "block", msg.items[1], conn)
             EXCEPT !.blocks_in_transit = Without(msg.items, msg.items[1]),
                    !.branch = "block"]
    ELSE IF msg.items[1] \in DOMAIN sv.mempool
            /\ sv.mempool[msg.items[1]].id # NoHash
    THEN [sv EXCEPT !.branch = "tx known"]
    ELSE [send_get_data(sv, msg.addr_from, "tx", msg.items[1], conn)
             EXCEPT !.branch = "tx"]

\* the loop over the mempool copy that ends at the first transaction that
\* verifies
RECURSIVE VerifyPool_first(_, _, _, _)
VerifyPool_first(sv, mp, order, txs) ==
    IF order = <<>> \/ txs # <<>> THEN [ret |-> "ok", txs |-> txs]
    ELSE IF Head(order) \notin DOMAIN mp
    THEN VerifyPool_first(sv, mp, Tail(order), txs)
    ELSE LET tx == mp[Head(order)]
             v  == verify_transacton(sv.c.db, sv.c.tip, tx)
         IN  IF v = "true"
             THEN VerifyPool_first(sv, mp, Tail(order), Append(txs, tx))
             ELSE IF v = "false"
             THEN VerifyPool_first(sv, mp, Tail(order), txs)
             ELSE [ret |-> v, txs |-> txs]

\* the loop over the mempool copy mp of handle_tx, in the iteration order
\* given: the transactions that verify, up to the first error.
\* Result: [ret, txs].
RECURSIVE VerifyPool(_, _, _, _)
VerifyPool(sv, mp, order, txs) ==
    IF order = <<>> THEN [ret |-> "ok", txs |-> txs]
    ELSE IF Head(order) \notin DOMAIN mp
    THEN VerifyPool(sv, mp, Tail(order), txs)
    ELSE LET tx == mp[Head(order)]
             v  == verify_transacton(sv.c.db, sv.c.tip, tx)
         IN  IF v = "true"
             THEN VerifyPool(sv, mp, Tail(order), Append(txs, tx))
             ELSE IF v = "false" THEN VerifyPool(sv, mp, Tail(order), txs)
             ELSE [ret |-> v, txs |-> txs]

\* the miner loop of handle_tx on the mempool copy mp
RECURSIVE MineLoop(_, _, _, _)
MineLoop(sv, mp, order, conn) ==
    LET v == VerifyPool(sv, mp, order, <<>>)
    IN  IF v.ret # "ok" THEN [sv EXCEPT !.ret = v.ret, !.branch = "verify_tx"]
        ELSE IF v.txs = <<>> THEN [sv EXCEPT !.branch = "txs.is_empty"]
        ELSE
          LET cbtx == new_coinbase(sv.mining_address, "", sv.nonce + 1)
              txs  == Append(v.txs, cbtx)
              mp2  == [id \in (DOMAIN mp) \ {txs[i].id : i \in 1..Len(txs)}
                          |-> mp[id]]
              m    == mine_block(sv.c, txs)
              s1   == [sv EXCEPT !.c = m.c, !.nonce = @ + 1]
              s2   == [s1 EXCEPT !.utxo = find_utxo(m.c.db, m.c.tip)]
              s3   == SendEach(s2, Keys((DOMAIN s2.known_nodes) \ {sv.self}),
                               "send_inv block", <<m.block.hash>>, conn)
          IN  IF m.ret # "ok"
              THEN [s1 EXCEPT !.ret = m.ret, !.branch = "mine_block"]
              ELSE IF DOMAIN mp2 = {}
              THEN [s3 EXCEPT !.mempool = <<>>, !.branch = "clear_mempool"]
              ELSE MineLoop(s3, mp2, order, conn)

\* handle_tx whose relay leaves out the own address only, not the sender
handle_tx_echo(sv, msg, conn, order) ==
    LET s1 == [sv EXCEPT !.mempool =
                  (msg.transaction.id :> msg.transaction) @@ @]
    IN  IF sv.self = KNOWN_NODE1
        THEN [SendEach(s1, Keys((DOMAIN s1.known_nodes) \ {sv.self}),
                       "send_inv tx", <<msg.transaction.id>>, conn)
                 EXCEPT !.branch = "relay"]
        ELSE IF sv.mining_address # <<>>
        THEN MineLoop(s1, s1.mempool, order, conn)
        ELSE [s1 EXCEPT !.branch = "no miner"]

\* Server::handle_tx.  order is the order in which the mempool yields its
\* entries.
handle_tx(sv, msg, conn, order) ==
    LET s1 == [sv EXCEPT !.mempool =
                  (msg.transaction.id :> msg.transaction) @@ @]
    IN  IF sv.self = KNOWN_NODE1
        THEN [SendEach(s1, Keys((DOMAIN s1.known_nodes)
                                   \ {sv.self, msg.addr_from}),
                       "send_inv tx", <<msg.transaction.id>>, conn)
                 EXCEPT !.branch = "relay"]
        ELSE IF sv.mining_address # <<>>
        THEN MineLoop(s1, s1.mempool, order, conn)
        ELSE [s1 EXCEPT !.branch = "no miner"]

\* bytes_to_cmd.  An Addr payload is read as a Vec<String>, and the sender
\* wrote a map from String to KnownNode: an empty map reads as the empty
\* list, a map of one entry as the list of its key (the trailing counter
\* byte is ignored), and with more entries the bytes after the first key are
\* read as the length of a second string that is not there.  The slice
\* &bytes[..CMD_LEN] of a message shorter than CMD_LEN bytes panics; a
\* command that is none of the seven is an error.
bytes_to_cmd(wire) ==
    IF wire.cmd = "short" THEN [ret |-> "panic", msg |-> <<>>]
    ELSE IF wire.cmd = "unknown" THEN [ret |-> "err", msg |-> <<>>]
    ELSE IF wire.cmd # "addr" THEN [ret |-> "ok", msg |-> wire]
    ELSE IF Cardinality(DOMAIN wire.nodes) <= 1
    THEN [ret |-> "ok", msg |-> Keys(DOMAIN wire.nodes)]
    ELSE [ret |-> "err", msg |-> <<>>]

\* Server::handle_connection
handle_connection(sv, wire, conn, order) ==
    LET cmd == bytes_to_cmd(wire)
    IN  IF cmd.ret # "ok"
        THEN [sv EXCEPT !.ret = cmd.ret, !.branch = "bytes_to_cmd"]
        ELSE IF wire.cmd = "addr" THEN handle_addr(sv, cmd.msg)
        ELSE IF wire.cmd = "block" THEN handle_block(sv, cmd.msg, conn)
        ELSE IF wire.cmd = "inv" THEN handle_inv(sv, cmd.msg, conn)
        ELSE IF wire.cmd = "getblocks"
        THEN handle_get_blocks(sv, cmd.msg, conn)
        ELSE IF wire.cmd = "getdata" THEN handle_get_data(sv, cmd.msg, conn)
        ELSE IF wire.cmd = "tx" THEN handle_tx(sv, cmd.msg, conn, order)
        ELSE handle_version(sv, cmd.msg, conn)

\* the handler of each command
HandlerOf ==
    [addr |-> "handle_addr", block |-> "handle_block", inv |-> "handle_inv",
     getblocks |-> "handle_get_blocks", getdata |-> "handle_get_data",
     tx |-> "handle_tx", version |-> "handle_version",
     short |-> "handle_connection", unknown |-> "handle_connection"]

----------------------------------------------------------------------------
(* The servers *)

\* the server of node n as a handler finds it
Server(n) ==
    [self |-> node_address[n], mining_address |-> MiningAddress(n),
     c |-> Chain(n), utxo |-> utxo[n], known_nodes |-> known_nodes[n],
     blocks_in_transit |-> blocks_in_transit[n], mempool |-> mempool[n],
     nonce |-> nonce, sent |-> <<>>, ret |-> "ok", branch |-> ""]

\* the server of node n as the operation op leaves it
Commit(n, sv, op) ==
    /\ SetChain(n, sv.c)
    /\ utxo' = [utxo EXCEPT ![n] = sv.utxo]
    /\ known_nodes' = [known_nodes EXCEPT ![n] = sv.known_nodes]
    /\ blocks_in_transit' =
           [blocks_in_transit EXCEPT ![n] = sv.blocks_in_transit]
    /\ mempool' = [mempool EXCEPT ![n] = sv.mempool]
    /\ nonce' = sv.nonce
    /\ sent' = sv.sent
    /\ res' = Result(op, n, sv.ret, sv.branch)
    /\ UNCHANGED node_address

\* the messages written to the servers of this model among the sends s
RECURSIVE Written(_)
Written(s) ==
    IF s = <<>> THEN EmptyBag
    ELSE IF Head(s).ok /\ \E n \in Nodes : node_address[n] = Head(s).to
    THEN SetToBag({[to |-> Head(s).to, data |-> Head(s).data]})
            (+) Written(Tail(s))
    ELSE Written(Tail(s))

NodeAt(addr) == CHOOSE n \in Nodes : node_address[n] = addr

\* the orders in which the mempool of n can yield its entries once the
\* transaction of wire is in it
PoolOrders(n, wire) ==
    IF wire.cmd = "tx"
    THEN ScanOrders((DOMAIN mempool[n]) \cup {wire.transaction.id})
    ELSE {<<>>}

\* A message from a peer outside the model arrives at node n:
\* handle_connection runs to its end
Arrive(n, wire, conn) ==
    /\ \E order \in PoolOrders(n, wire) :
          LET sv == handle_connection(Server(n), wire, conn, order)
          IN  /\ Commit(n, sv, HandlerOf[wire.cmd])
              /\ msgs' = msgs (+) Written(sv.sent)
    /\ UNCHANGED ticks

\* A message in flight arrives at its node: handle_connection runs to its
\* end, and what it writes to the other nodes is in flight
Deliver(m, conn) ==
    /\ BagIn(m, msgs)
    /\ \E order \in PoolOrders(NodeAt(m.to), m.data) :
          \E sv \in {handle_connection(Server(NodeAt(m.to)), m.data, conn,
                                       order)} :
              /\ Commit(NodeAt(m.to), sv, HandlerOf[m.data.cmd])
              /\ msgs' = (msgs (-) SetToBag({m})) (+) Written(sv.sent)
    /\ UNCHANGED ticks

\* the interval timer of start_server fires on node n
Tick(n, conn) ==
    \E sv \in {check_and_update_blockchain_state(Server(n), conn)} :
        /\ Commit(n, sv, "check_and_update_blockchain_state")
        /\ msgs' = msgs (+) Written(sv.sent)

\* the Peers screen: MyApp::add_peer
AddPeer(n, new_peer_ip) ==
    /\ Commit(n, add_peer(Server(n), new_peer_ip), "add_peer")
    /\ UNCHANGED <<msgs, ticks>>

\* MyApp::send_transaction, mine_now = false, with the broadcast of
\* Server::send_transaction to the peers outside the model
Broadcast(n, k, to, amount, conn) ==
    /\ Started(n)
    /\ \E order \in Orders(n, k) :
          LET r == new_utxo(n, k, to, amount, order)
          IN  IF r.ret # "ok"
              THEN /\ res' = Result("new_utxo", n, r.ret, "")
                   /\ sent' = <<>>
                   /\ UNCHANGED <<db, last, tip, utxo, nonce, node_address,
                                  known_nodes, blocks_in_transit, mempool>>
              ELSE Commit(n, send_transaction(Server(n), r.tx, conn),
                          "send_transaction")
    /\ UNCHANGED <<msgs, ticks>>

\* what the connections a handler attempts can meet
Conns == [1..MaxSends -> BOOLEAN]

\* every connection is accepted
AllUp == [i \in 1..MaxSends |-> TRUE]

\* a hash no store holds
UnknownHash == <<"blk", <<"unknown">>, <<>>>>

\* the messages the peers of node n send it that leave its chain and its
\* mempool as they are
PeerWires(n) ==
    LET peers == Addrs \ {node_address[n]}
        known == DOMAIN db[n]
    IN  {[cmd |-> "version", addr_from |-> p, version |-> VERSION,
          best_height |-> h] : p \in peers, h \in {-1, 0, 1}}
        \cup {[cmd |-> "addr", nodes |-> <<>>]}
        \cup {[cmd |-> "addr", nodes |-> (p :> c)] : p \in Addrs, c \in {0, 2}}
        \cup {[cmd |-> "getblocks", addr_from |-> p] : p \in peers}
        \cup {[cmd |-> "getdata", addr_from |-> p, kind |-> "block",
               id |-> h] : p \in peers, h \in known \cup {UnknownHash}}
        \cup {[cmd |-> "inv", addr_from |-> p, kind |-> "block",
               items |-> i] :
                 p \in peers,
                 i \in {<<>>, <<UnknownHash>>}
                         \cup {<<UnknownHash, h>> : h \in known}}
        \cup {[cmd |-> "getdata", addr_from |-> p, kind |-> "tx",
               id |-> UnknownHash] : p \in peers}
        \cup {[cmd |-> "inv", addr_from |-> p, kind |-> "tx",
               items |-> <<>>] : p \in peers}
        \cup {[cmd |-> "short"], [cmd |-> "unknown"]}

\* One server and its directory; its peers are outside the model and accept
\* a connection or not
NextPeers ==
    \/ StartupCustom("B", "W") /\ UNCHANGED srv
    \/ \E conn \in Conns :
          Tick("B", conn) /\ UNCHANGED <<ticks, pc, rwlock>>
    \/ \E p \in Addrs : AddPeer("B", p) /\ UNCHANGED tasks
    \/ \E a \in Amounts, conn \in Conns :
          Broadcast("B", "W", WalletAddress("X"), a, conn)
             /\ UNCHANGED tasks
    \/ \E wire \in PeerWires("B"), conn \in Conns :
          Arrive("B", wire, conn) /\ UNCHANGED tasks

InitPeers == EmptyStores /\ ServerNew([A |-> "none", B |-> "P"])

SpecPeers == InitPeers /\ [][NextPeers]_vars

\* the chain of node n once it has created it and mined h blocks
RECURSIVE Grown(_, _)
Grown(n, h) ==
    IF h = 0 THEN create_blockchain(WalletAddress("W"))
    ELSE mine_block(Grown(n, h - 1),
                    <<new_coinbase(MiningAddress(n), "", h)>>).c

\* Node A, the bootstrap node, has a chain of some height; node B has been
\* constructed on empty stores and knows A
InitBoot ==
    /\ \E h \in 0..MaxHeight :
          LET c == Grown("A", h)
          IN  /\ db = [A |-> c.db, B |-> <<>>]
              /\ last = [A |-> c.last, B |-> NoHash]
              /\ tip = [A |-> c.tip, B |-> NoHash]
              /\ utxo = [A |-> find_utxo(c.db, c.tip), B |-> <<>>]
              /\ nonce = h
    /\ res = Result("init", "A", "ok", "")
    /\ ServerNew([A |-> "K", B |-> "P"])

\* the timer of node n fires, MaxTicks times at most
TimerFires(n) ==
    /\ ticks[n] < MaxTicks
    /\ Tick(n, AllUp)
    /\ ticks' = [ticks EXCEPT ![n] = @ + 1]
    /\ UNCHANGED tasks

\* a message in flight is handled by the node it was written to
Handled ==
    /\ \E m \in BagToSet(msgs) : Deliver(m, AllUp)
    /\ UNCHANGED tasks

\* Two servers that reach each other: every connection is accepted and
\* every message written is handled
NextBoot ==
    \/ \E n \in Nodes : TimerFires(n)
    \/ Handled

SpecBoot == InitBoot /\ [][NextBoot]_vars

\* The interval timer of start_server keeps firing, and the accept loop
\* hands every connection to a task that runs handle_connection
FairBoot ==
    SpecBoot /\ WF_vars(TimerFires("B")) /\ WF_vars(Handled)

\* the amount of the transfers sent to the miner
PoolAmounts == {4}

\* the transfers of that amount the wallets can build on node n now
Transfers(n) == {tx \in Built(n) : tx.vout[1].value \in PoolAmounts}

\* the Tx messages that can reach the miner of node n: transfers built on
\* its chain or on the chain of the other node, one of its own with a byte
\* of a signature changed, one of its chain sent again
TxWires(n) ==
    {[cmd |-> "tx", addr_from |-> KNOWN_NODE1, transaction |-> tx] :
        tx \in UNION {Transfers(m) : m \in Nodes}
                 \cup {Tamper(tx, "flip") : tx \in Transfers(n)}
                 \cup OnChain(n)}

\* the Block messages that can reach node n: the blocks some node stores
BlockWires(n) ==
    {[cmd |-> "block", addr_from |-> KNOWN_NODE1, block |-> b] : b \in Stored}

\* a Tx message reaches the miner of node n
ArriveTx(n, wire, conn) ==
    /\ Started(n)
    /\ Mined < MaxMined
    /\ Cardinality(DOMAIN mempool[n]) < MaxPool
    /\ Arrive(n, wire, conn)

\* The miner of node B, which is not the bootstrap node, and its mempool.
\* Node A is a peer that mines transfers on the same genesis block; its
\* blocks reach B as Block messages.
NextMiner ==
    \/ \E n \in Nodes : StartupCustom(n, "W") /\ UNCHANGED srv
    \/ \E tx \in Transfers("A") :
          /\ Cardinality(DOMAIN db["A"]) <= MaxPeerBlocks
          /\ MinerStep("A", <<tx>>) /\ UNCHANGED srv
    \/ \E wire \in TxWires("B") :
          ArriveTx("B", wire, AllUp) /\ UNCHANGED tasks
    \/ \E wire \in BlockWires("B") :
          Started("B") /\ Arrive("B", wire, AllUp) /\ UNCHANGED tasks

SpecMiner == InitPeers /\ [][NextMiner]_vars

----------------------------------------------------------------------------
(* The chain of a node *)

BestHeight(n) == get_best_height(db[n], last[n])

\* the hashes of the blocks on the chain of n: those the iterator reaches
\* from the tip
ChainHashes(n) == Range(get_block_hashes(db[n], tip[n]))

\* C2: add_block of a block whose hash is in the store leaves the stored
\* blocks, LAST, the tip and the best height as they are; so does every
\* repetition of an add_block call.
C2_AddBlockIdempotent ==
    \A n \in Nodes : \A b \in Stored :
        LET c  == Chain(n)
            c1 == add_block(c, b)
        IN  /\ b.hash \in DOMAIN c.db =>
                  /\ c1 = c
                  /\ get_best_height(c1.db, c1.last) = BestHeight(n)
            /\ add_block(c1, b) = c1
            /\ add_block(add_block(c1, b), b) = c1

\* C2 (case reached): add_block has returned from its known-hash branch on a
\* node whose tip is not that block
C2_Witness ==
    /\ res.op = "add_block"
    /\ res.branch = "known"
    /\ Cardinality(DOMAIN db[res.node]) > 1

\* C3: a mine_block or add_block call that returns success and moves the
\* tip raises the best height of the node by exactly 1.
C3_HeightByOne ==
    [][\A n \in Nodes :
          (/\ res'.op \in {"mine_block", "add_block"}
           /\ res'.node = n
           /\ res'.ret = "ok"
           /\ tip'[n] # tip[n])
          => get_best_height(db'[n], last'[n]) = BestHeight(n) + 1]_vars

\* C4: a block on the chain of a node stays on its chain, and a stored hash
\* keeps its block.
C4_NeverRewrites ==
    [][\A n \in Nodes :
          /\ \A h \in ChainHashes(n) :
                h \in Range(get_block_hashes(db'[n], tip'[n]))
          /\ \A h \in DOMAIN db[n] :
                h \in DOMAIN db'[n] /\ db'[n][h] = db[n][h]]_vars

\* C5: every stored block with a previous hash has its predecessor in the
\* store, and a block without a previous hash is a genesis block.
C5_PrevHashStored ==
    \A n \in Nodes : \A h \in DOMAIN db[n] :
        LET b == db[n][h]
        IN  IF b.prev_hash = NoHash THEN b.height = 0
            ELSE b.prev_hash \in DOMAIN db[n]

----------------------------------------------------------------------------
(* The ledger of node A *)

PubKeyHash(k) == DecodeBody(WalletAddress(k))

\* the positions <<txid, i>> of the index entries that hold an output of
\* pub_key_hash, as UTXOSet::find_utxo collects them
OwnedPairs(index, pkh) ==
    {p \in UNION {{<<id, i>> : i \in 1..Len(index[id])} : id \in DOMAIN index} :
        can_be_unlock_with(index[p[1]][p[2]], pkh)}

RECURSIVE SumValues(_, _)
SumValues(index, S) ==
    IF S = {} THEN 0
    ELSE LET p == CHOOSE q \in S : TRUE
         IN  index[p[1]][p[2]].value + SumValues(index, S \ {p})

\* the balance of pub_key_hash: the total of its outputs in the index
Balance(index, pkh) == SumValues(index, OwnedPairs(index, pkh))

\* the batch the miner of A makes of the transactions txs in this state
Batch(txs) == Append(txs, new_coinbase(MiningAddress("A"), "", nonce + 1))

RECURSIVE SumSelected(_, _)
SumSelected(index, sel) ==
    IF sel = <<>> THEN 0
    ELSE index[Head(sel)[1]][Head(sel)[2] + 1].value
           + SumSelected(index, Tail(sel))

C9_InsufficientBalance ==
    \A k \in Wallets, to \in Wallets, a \in Amounts :
        \A order \in Orders("A", k) :
            Balance(utxo["A"], PubKeyHash(k)) < a
            => new_utxo("A", k, WalletAddress(to), a, order).ret = "err"

\* the outputs no transfer on the chain refers to, per transaction id
GroundTruth(n) ==
    LET txs   == ChainTxs(db[n], tip[n])
        spent == UNION {{<<tx.vin[i].txid, tx.vin[i].vout>> :
                            i \in 1..Len(tx.vin)} :
                        tx \in {t \in Range(txs) : ~is_coinbase(t)}}
        TxOf(id) == CHOOSE t \in Range(txs) : t.id = id
        ids   == {id \in {t.id : t \in Range(txs)} :
                     UnspentOf(TxOf(id), spent) # <<>>}
    IN  [id \in ids |-> UnspentOf(TxOf(id), spent)]

\* C6: the rebuilt index holds, for every transaction on the chain, exactly
\* its outputs that no transfer on the chain refers to, and no entry for a
\* transaction without such an output.
C6_ReindexIsGroundTruth == utxo["A"] = GroundTruth("A")

\* C10: a wallet holding one output of value v sends a, 0 < a < v, to another
\* wallet; once the transfer is mined and the index rebuilt, the index
\* holds the output of a for the receiver and the change of v - a for the
\* sender, and no other output of the sender.
C10_TransferEndToEnd ==
    [][\A k \in Wallets, a \in Amounts :
          \A to \in Wallets \ {k}, order \in Orders("A", k) :
             LET r == new_utxo("A", k, WalletAddress(to), a, order)
                 v == Balance(utxo["A"], PubKeyHash(k))
             IN  (/\ Cardinality(OwnedPairs(utxo["A"], PubKeyHash(k))) = 1
                  /\ 0 < a /\ a < v
                  /\ r.ret = "ok"
                  /\ res'.op = "mine_block" /\ res'.ret = "ok"
                  /\ tip'["A"] # tip["A"]
                  /\ Len(db'["A"][tip'["A"]].transactions) = 2
                  /\ db'["A"][tip'["A"]].transactions[1] = r.tx)
                 => /\ r.tx.id \in DOMAIN utxo'["A"]
                    /\ utxo'["A"][r.tx.id] =
                          <<TXOutputNew(a, WalletAddress(to)),
                            TXOutputNew(v - a, WalletAddress(k))>>
                    /\ OwnedPairs(utxo'["A"], PubKeyHash(k)) =
                          {<<r.tx.id, 2>>}]_vars

\* C7: the index that update has brought forward block by block is the
\* index a rebuild from the chain gives.
C7_UpdateEqualsReindex ==
    utxo["A"] = find_utxo(db["A"], tip["A"])

----------------------------------------------------------------------------
(* Signatures *)

\* the transaction as new_utxo hands it to sign_transacton: no input signed
Unsigned(tx) ==
    [tx EXCEPT !.vin = [i \in 1..Len(tx.vin) |->
                           [tx.vin[i] EXCEPT !.signature = <<>>]]]

\* the wallet whose public key the inputs of tx carry
Spender(tx) == tx.vin[1].pub_key[2]

\* one byte of the stored signature of input i changed; the byte lies in
\* one of the three parts of the signature
FlipByte(tx, i, part) ==
    [tx EXCEPT !.vin[i].signature[part] =
        IF part = 1 THEN "gis"
        ELSE IF part = 2 THEN "flipped"
        ELSE <<@[1], @[2] \o @[2]>>]

\* C11: a transfer whose inputs refer to transactions on the chain, signed
\* with the secret key of the spender, verifies as true; with one byte of the
\* signature of any input changed it verifies as false, not as an error.
C11_SignThenVerify ==
    \A tx \in Built("A") :
        tx.vin # <<>> =>
            LET s == sign_transacton(db["A"], tip["A"], Unsigned(tx),
                                     Spender(tx))
            IN  /\ s.ret = "ok"
                /\ verify_transacton(db["A"], tip["A"], s.tx) = "true"
                /\ \A i \in 1..Len(tx.vin), part \in 1..3 :
                      verify_transacton(db["A"], tip["A"],
                                        FlipByte(s.tx, i, part)) = "false"

\* C11 (case reached): a transfer was built in a state where a wallet can
\* build a transfer of two inputs
C11_Witness ==
    /\ res.op = "new_utxo"
    /\ res.ret = "ok"
    /\ \E tx \in Built("A") : Len(tx.vin) = 2

----------------------------------------------------------------------------
(* The directory of known peers *)

\* the operations of a server that run a message handler
Handlers == {HandlerOf[c] : c \in DOMAIN HandlerOf}

\* the operations of a server: the handlers, the timer and the calls of
\* the screens
ServerOps ==
    Handlers \cup {"check_and_update_blockchain_state", "send_transaction",
                   "add_peer"}

\* the connections to addr among the sends s that were accepted (ok) or
\* refused (~ok)
Attempts(s, addr, ok) ==
    Cardinality({i \in DOMAIN s : s[i].to = addr /\ s[i].ok = ok})

\* the connections to addr among the sends s refused after the last one
\* that was accepted
TrailingFailures(s, addr) ==
    Cardinality({i \in DOMAIN s :
                    /\ s[i].to = addr /\ ~s[i].ok
                    /\ \A j \in DOMAIN s :
                          (s[j].to = addr /\ s[j].ok) => j < i})

\* C12: a failed connection that brings the counter of a known peer to 3,
\* the third in a row, removes the peer from the directory.
C12_EvictedAtThird ==
    [][\A p \in Addrs :
          (/\ res'.op \in ServerOps
           /\ p \in DOMAIN known_nodes["B"]
           /\ known_nodes["B"][p] = 2
           /\ Attempts(sent', p, FALSE) = 1
           /\ Attempts(sent', p, TRUE) = 0)
          => p \notin DOMAIN known_nodes'["B"]]_vars

\* C13: once a connection to a known peer has succeeded its counter counts
\* the failed connections since that success only (0 when the success was
\* the last connection); without a success it rises by the failed
\* connections; and a peer leaves the directory only when the failures
\* counted that way exceed 3.
C13_SuccessResets ==
    [][\A p \in DOMAIN known_nodes["B"] :
          LET old == IF Attempts(sent', p, TRUE) > 0 THEN 0
                     ELSE known_nodes["B"][p]
              run == old + TrailingFailures(sent', p)
          IN  (res'.op \in ServerOps /\ res'.op # "add_peer"
               /\ Attempts(sent', p, TRUE) + Attempts(sent', p, FALSE) > 0)
              => /\ p \in DOMAIN known_nodes'["B"] =>
                       \/ known_nodes'["B"][p] = run
                       \/ run > 3 /\ known_nodes'["B"][p] = 0
                 /\ p \notin DOMAIN known_nodes'["B"] => run > 3]_vars

\* C13 (case reached): one handler had a connection to a known peer refused
\* and the next connection to it accepted, and the counter of the peer is 0
C13_Witness ==
    /\ res.op = "handle_version"
    /\ Len(sent) = 2
    /\ sent[1].to = sent[2].to
    /\ ~sent[1].ok /\ sent[2].ok
    /\ sent[1].to \in DOMAIN known_nodes["B"]
    /\ known_nodes["B"][sent[1].to] = 0
    /\ \E q \in DOMAIN known_nodes["B"] : known_nodes["B"][q] = 3

\* C19: send_transaction returns success and has attempted one connection,
\* carrying the transaction, to every peer of the directory as it was at the
\* call, whichever of these connections were refused.
C19_BroadcastReachesAll ==
    [][res'.op = "send_transaction" =>
          LET peers == (DOMAIN known_nodes["B"]) \ {node_address["B"]}
          IN  /\ res'.ret = "ok"
              /\ Len(sent') = Cardinality(peers)
              /\ \A p \in peers :
                    Attempts(sent', p, TRUE) + Attempts(sent', p, FALSE) = 1
              /\ \A i \in DOMAIN sent' :
                    /\ sent'[i].data.cmd = "tx"
                    /\ sent'[i].data.transaction = sent'[1].data.transaction
          ]_vars

\* C19 (case reached): send_transaction had its first connection refused and
\* its second one accepted
C19_Witness ==
    /\ res.op = "send_transaction"
    /\ Len(sent) = 2
    /\ ~sent[1].ok
    /\ sent[2].ok
    /\ sent[2].data.transaction.vin # <<>>

\* C20: a message handler changes the counter of a peer that is in the
\* directory before and after it only when it attempts a connection to that
\* peer.
C20_CountersOnlyBySends ==
    [][\A p \in DOMAIN known_nodes["B"] :
          (/\ res'.op \in Handlers
           /\ p \in DOMAIN known_nodes'["B"]
           /\ known_nodes'["B"][p] # known_nodes["B"][p])
          => Attempts(sent', p, TRUE) + Attempts(sent', p, FALSE) > 0]_vars

----------------------------------------------------------------------------
(* The miner and its mempool *)

\* the mempool of node n once the transaction of a Tx message is in it
PoolWith(n, wire) ==
    (wire.transaction.id :> wire.transaction) @@ mempool[n]

\* every transaction of the pool verifies against the chain of node n
AllVerify(n, pool) ==
    \A id \in DOMAIN pool :
        verify_transacton(db[n], tip[n], pool[id]) = "true"

\* C14: when the miner of B handles a Tx message and the N transactions its
\* mempool then holds all verify, the mempool is empty afterwards and the
\* block just mined holds N+1 transactions: the N of the mempool and, last,
\* one coinbase that pays the miner.
C14_MinerEmptiesPool ==
    \A wire \in TxWires("B") : \A order \in PoolOrders("B", wire) :
        LET pool  == PoolWith("B", wire)
            N     == Cardinality(DOMAIN pool)
            sv    == handle_tx(Server("B"), wire, AllUp, order)
            block == sv.c.db[sv.c.tip]
            txs   == block.transactions
        IN  (Started("B") /\ AllVerify("B", pool)) =>
               /\ sv.ret = "ok"
               /\ sv.mempool = <<>>
               /\ (DOMAIN sv.c.db) \ (DOMAIN db["B"]) = {block.hash}
               /\ Len(txs) = N + 1
               /\ {txs[i] : i \in 1..N} = Range(pool)
               /\ is_coinbase(txs[N + 1])
               /\ txs[N + 1].vout = <<TXOutputNew(SUBSIDY, MiningAddress("B"))>>
               /\ \A i \in 1..N : ~is_coinbase(txs[i])

\* C14 (case reached): the miner of B has handled a Tx message with two
\* transactions in its mempool and mined a block of three
C14_Witness ==
    /\ res.op = "handle_tx"
    /\ res.node = "B"
    /\ res.branch = "clear_mempool"
    /\ mempool["B"] = <<>>
    /\ Len(db["B"][tip["B"]].transactions) = 3

\* C15: when handle_tx returns, no transaction of a block it has just mined
\* is still in the mempool of the server.
C15_MinedLeavePool ==
    [][res'.op = "handle_tx" =>
          \A h \in (DOMAIN db'[res'.node]) \ (DOMAIN db[res'.node]) :
              \A i \in 1..Len(db'[res'.node][h].transactions) :
                  db'[res'.node][h].transactions[i].id
                      \notin DOMAIN mempool'[res'.node]]_vars

----------------------------------------------------------------------------
(* The handlers of Version and Block *)

\* the attempts among s that carry the command cmd
OfCmd(s, cmd) == {i \in DOMAIN s : s[i].data.cmd = cmd}

\* C18: handling a Version message of peer P, the node attempts one GetBlocks
\* to P and no Version when the height of the message is above its own, one
\* Version with its own height to P and no GetBlocks when it is below, and
\* neither when the heights are equal.
C18_VersionBranches ==
    \A wire \in {w \in PeerWires("B") : w.cmd = "version"} :
      \A conn \in Conns :
        LET sv == handle_connection(Server("B"), wire, conn, <<>>)
            gb == OfCmd(sv.sent, "getblocks")
            vs == OfCmd(sv.sent, "version")
            my == BestHeight("B")
        IN  /\ wire.best_height > my =>
                 /\ vs = {}
                 /\ Cardinality(gb) = 1
                 /\ \A i \in gb : sv.sent[i].to = wire.addr_from
            /\ wire.best_height < my =>
                 /\ gb = {}
                 /\ Cardinality(vs) = 1
                 /\ \A i \in vs :
                       /\ sv.sent[i].to = wire.addr_from
                       /\ sv.sent[i].data.best_height = my
                       /\ sv.sent[i].data.addr_from = node_address["B"]
            /\ wire.best_height = my => (gb = {} /\ vs = {})

\* C18 (case reached): a node with a chain has handled a Version message of
\* a greater height and its GetBlocks was accepted
C18_Witness ==
    /\ res.op = "handle_version"
    /\ res.branch = "get_blocks"
    /\ Started("B")
    /\ sent # <<>>
    /\ sent[1].data.cmd = "getblocks"
    /\ sent[1].ok

\* node B holds the blocks of node A, has the tip of A, and its index is the
\* one rebuilt from that chain
BootSynced ==
    /\ db["B"] = db["A"]
    /\ tip["B"] = tip["A"]
    /\ last["B"] = last["A"]
    /\ BestHeight("B") = BestHeight("A")
    /\ utxo["B"] = find_utxo(db["B"], tip["B"])
    /\ utxo["B"] = utxo["A"]

\* C16: node B, started on an empty chain and knowing the reachable peer A
\* whose chain has height h, eventually holds all blocks of A with the tip
\* and best height of A and an index rebuilt from them, and stays so.
C16_BootstrapSync == <>[]BootSynced

\* C16 (case reached): B has rebuilt its index on a chain of three blocks
\* received from A
C16_Witness ==
    /\ BootSynced
    /\ BestHeight("A") = 2
    /\ res.op = "handle_block"
    /\ res.node = "B"
    /\ res.branch = "reindex"
    /\ blocks_in_transit["B"] = <<>>

\* C17: a step that handles a Block message adds the block to the chain;
\* with hashes in transit it removes the head of the queue and attempts one
\* GetData for that hash to the sender of the block, the index untouched;
\* with none in transit it rebuilds the index, sends nothing and the queue
\* stays empty.
C17_BlockStep ==
    [][res'.op = "handle_block" =>
          LET n == res'.node
              q == blocks_in_transit[n]
          IN  \E m \in BagToSet(msgs) :
                /\ m.to = node_address[n]
                /\ m.data.cmd = "block"
                /\ msgs' = (msgs (-) SetToBag({m})) (+) Written(sent')
                /\ db'[n] = add_block(Chain(n), m.data.block).db
                /\ tip'[n] = add_block(Chain(n), m.data.block).tip
                /\ m.data.block.hash \in DOMAIN db'[n]
                /\ IF q # <<>>
                   THEN /\ blocks_in_transit'[n] = Tail(q)
                        /\ Len(sent') = 1
                        /\ sent'[1].to = m.data.addr_from
                        /\ sent'[1].data =
                              [cmd |-> "getdata", addr_from |-> node_address[n],
                               kind |-> "block", id |-> Head(q)]
                        /\ utxo'[n] = utxo[n]
                   ELSE /\ blocks_in_transit'[n] = <<>>
                        /\ sent' = <<>>
                        /\ utxo'[n] = find_utxo(db'[n], tip'[n])
          ]_vars

\* C17 (case reached): a Block message was handled with two hashes in
\* transit: one is left and the other was requested
C17_Witness ==
    /\ res.op = "handle_block"
    /\ res.branch = "get_data"
    /\ Len(blocks_in_transit["B"]) = 1
    /\ Len(sent) = 1
    /\ sent[1].data.cmd = "getdata"
    /\ sent[1].data.id \in DOMAIN db["A"]

----------------------------------------------------------------------------
(* The store of a node: add_block, open or create, the iterator *)

\* C26: add_block of a block whose hash is not stored stores it, keeps every
\* stored block, and makes it LAST and the tip exactly when its height is
\* above the best height; otherwise LAST, the tip and the best height stay.
C26_TipOnlyIfHigher ==
    \A n \in Nodes : \A b \in Stored :
        LET c  == Chain(n)
            c1 == add_block(c, b)
        IN  b.hash \notin DOMAIN c.db =>
              /\ DOMAIN c1.db = (DOMAIN c.db) \cup {b.hash}
              /\ c1.db[b.hash] = b
              /\ \A h \in DOMAIN c.db : c1.db[h] = c.db[h]
              /\ IF b.height > BestHeight(n)
                 THEN /\ c1.last = b.hash
                      /\ c1.tip = b.hash
                      /\ get_best_height(c1.db, c1.last) = b.height
                 ELSE /\ c1.last = c.last
                      /\ c1.tip = c.tip
                      /\ get_best_height(c1.db, c1.last) = BestHeight(n)

\* C26 (case reached): add_block has stored a block as high as the tip of
\* the node and left the tip where it was
C26_Witness ==
    /\ res.op = "add_block"
    /\ res.branch = "stored"
    /\ \E h \in DOMAIN db[res.node] :
          /\ h # tip[res.node]
          /\ db[res.node][h].height = BestHeight(res.node)
          /\ db[res.node][h].height > 0

\* C27: opening a store that has LAST creates no block, keeps LAST and sets
\* the tip to it; opening a store without LAST leaves one block, of height
\* 0, without previous hash, holding one coinbase for the fixed address, as
\* LAST and tip.  The best height is never -1 afterwards.
C27_GenesisOnce ==
    [][\A n \in Nodes :
          (res'.op = "new" /\ res'.node = n) =>
             /\ get_best_height(db'[n], last'[n]) >= 0
             /\ IF last[n] # NoHash
                THEN /\ db'[n] = db[n]
                     /\ last'[n] = last[n]
                     /\ tip'[n] = last[n]
                ELSE /\ Cardinality(DOMAIN db'[n]) = 1
                     /\ last'[n] \in DOMAIN db'[n]
                     /\ tip'[n] = last'[n]
                     /\ LET g == db'[n][last'[n]]
                        IN  /\ g.hash = last'[n]
                            /\ g.height = 0
                            /\ g.prev_hash = NoHash
                            /\ Len(g.transactions) = 1
                            /\ is_coinbase(g.transactions[1])
                            /\ g.transactions[1].vout =
                                  <<TXOutputNew(SUBSIDY, FixedAddress)>>
                     /\ get_best_height(db'[n], last'[n]) = 0]_vars

\* C27 (case reached): a store that holds mined blocks was opened again
C27_Witness ==
    /\ res.op = "new"
    /\ Cardinality(DOMAIN db[res.node]) >= 3
    /\ BestHeight(res.node) >= 1
    /\ tip[res.node] = last[res.node]

\* C28: the iterator from the tip of a started node yields one block for
\* every height from the best height down to 0, in that order, and the last
\* one is a genesis block.
C28_IterToGenesis ==
    \A n \in Nodes :
        Started(n) =>
           LET blocks == iter(db[n], tip[n])
           IN  /\ Len(blocks) = BestHeight(n) + 1
               /\ \A i \in 1..Len(blocks) :
                     blocks[i].height = BestHeight(n) - (i - 1)
               /\ blocks[Len(blocks)].prev_hash = NoHash

----------------------------------------------------------------------------
(* Selecting outputs, and transactions that refer to an unknown one *)

\* the positions of OwnedPairs as find_spendable_outputs numbers them
Selected(sel) == {<<sel[i][1], sel[i][2] + 1>> : i \in DOMAIN sel}

\* C29: find_spendable_outputs selects an output only while the total is
\* below the amount, so the total without the last selected output is below
\* the amount; and when the outputs of the address total less than the
\* amount it returns that total and all of them.
C29_SpendableShortfall ==
    \A k \in Wallets, a \in Amounts : \A order \in Orders("A", k) :
        LET index == utxo["A"]
            pkh   == PubKeyHash(k)
            r     == find_spendable_outputs(index, order, pkh, a)
        IN  /\ r.sel # <<>> =>
                  r.acc - SumSelected(index, <<r.sel[Len(r.sel)]>>) < a
            /\ Balance(index, pkh) < a =>
                  /\ r.acc = Balance(index, pkh)
                  /\ Selected(r.sel) = OwnedPairs(index, pkh)


\* the candidates of node A now that are no coinbase and have an input whose
\* previous transaction is not on the chain of A
UnknownPrev ==
    {tx \in Candidates("A") :
        /\ ~is_coinbase(tx)
        /\ ~PrevTxsFound(ChainTxs(db["A"], tip["A"]), tx)}

\* C30: for a transaction that is no coinbase and has an input referring to
\* a transaction id that is not on the chain, verify_transacton and
\* sign_transacton return an error (no true, no false, no panic), the
\* transaction comes back from sign_transacton as it was, and mine_block of a
\* batch with it returns an error and leaves the chain as it was.
C30_UnknownPrevIsError ==
    \A tx \in UnknownPrev :
        LET c == Chain("A")
            m == mine_block(c, Batch(<<tx>>))
        IN  /\ verify_transacton(c.db, c.tip, tx) = "err"
            /\ \A k \in Wallets :
                  sign_transacton(c.db, c.tip, tx, k) = [ret |-> "err", tx |-> tx]
            /\ m.ret = "err"
            /\ m.c = c

\* C30 (case reached): mine_block has returned an error on a chain with a
\* mined block, for which a signed transfer with an input pointing to an
\* unknown transaction exists
C30_Witness ==
    /\ res.op = "mine_block"
    /\ res.ret = "err"
    /\ BestHeight("A") >= 2
    /\ \E tx \in UnknownPrev : tx.vin[1].signature # <<>>

----------------------------------------------------------------------------
(* The index after a block is applied *)

\* C21: a handler that applies a block to the chain of its node
\* (handle_block a received one, the miner of handle_tx a mined one) and
\* returns without error leaves the index of the node rebuilt from the chain.
C21_ReindexAfterBlock ==
    [][\A n \in Nodes :
          (/\ res'.node = n
           /\ res'.op \in {"handle_block", "handle_tx"}
           /\ res'.ret = "ok"
           /\ db'[n] # db[n])
          => utxo'[n] = find_utxo(db'[n], tip'[n])]_vars

----------------------------------------------------------------------------
(* The stores when a call to them fails.  Every call of add_block and of   *)
(* reindex that returns a Result can return an error: fault names the call *)
(* that does, "none" when none does.                                       *)

AddBlockFaults ==
    {"none", "serialize", "get", "insert", "get_best_height", "insert LAST",
     "flush"}

\* Blockchain::add_block, statement by statement, with the call fault
\* returning an error if it is reached
add_block_io(c, block, fault) ==
    LET d == (block.hash :> block) @@ c.db
    IN  IF fault \in {"serialize", "get"} THEN [ret |-> "err", c |-> c]
        ELSE IF block.hash \in DOMAIN c.db THEN [ret |-> "ok", c |-> c]
        ELSE IF fault = "insert" THEN [ret |-> "err", c |-> c]
        ELSE IF fault = "get_best_height"
        THEN [ret |-> "err", c |-> [c EXCEPT !.db = d]]
        ELSE IF ~(block.height > get_best_height(d, c.last))
        THEN [ret |-> "ok", c |-> [c EXCEPT !.db = d]]
        ELSE IF fault = "insert LAST"
        THEN [ret |-> "err", c |-> [c EXCEPT !.db = d]]
        ELSE [ret |-> IF fault = "flush" THEN "err" ELSE "ok",
              c |-> [db |-> d, last |-> block.hash, tip |-> block.hash]]

ReindexFaults == {"none", "open", "insert"}

\* UTXOSet::reindex on the index directory holding index: the directory is
\* removed, the store opened, and the entries of find_utxo inserted one by
\* one; done is the set of entries inserted before the insert that fails
reindex_io(c, index, fault, done) ==
    LET utxos == find_utxo(c.db, c.tip)
    IN  IF fault = "open" THEN [ret |-> "err", index |-> <<>>]
        ELSE IF fault = "insert" /\ done # DOMAIN utxos
        THEN [ret |-> "err", index |-> [id \in done |-> utxos[id]]]
        ELSE [ret |-> "ok", index |-> utxos]

\* the sets of entries reindex can have inserted when the call rfault fails
Inserted(c, rfault) ==
    IF rfault = "insert"
    THEN (SUBSET DOMAIN find_utxo(c.db, c.tip)) \ {DOMAIN find_utxo(c.db, c.tip)}
    ELSE {{}}

\* Server::handle_block for a block a peer sent, on stores that can fail:
\* the error of add_block or of reindex is returned to handle_connection
HandleBlockIO(n, block, in_transit, fault, rfault) ==
    /\ Started(n)
    /\ \E a \in {add_block_io(Chain(n), block, fault)} :
          /\ SetChain(n, a.c)
          /\ IF a.ret = "err"
             THEN /\ res' = Result("handle_block", n, "err", "add_block")
                  /\ UNCHANGED utxo
             ELSE IF in_transit
             THEN /\ res' = Result("handle_block", n, "ok", "get_data")
                  /\ UNCHANGED utxo
             ELSE \E done \in Inserted(a.c, rfault) :
                    \E r \in {reindex_io(a.c, utxo[n], rfault, done)} :
                       /\ utxo' = [utxo EXCEPT ![n] = r.index]
                       /\ res' = Result("handle_block", n, r.ret,
                                        "reindex")
    /\ UNCHANGED nonce

\* Node A mines, node B receives the blocks of A on stores that can fail
NextStore ==
    \/ \E n \in Nodes : Startup(n) /\ UNCHANGED srv
    \/ MinerStep("A", <<>>) /\ UNCHANGED srv
    \/ \E b \in Stored, in_transit \in BOOLEAN :
          \E fault \in AddBlockFaults, rfault \in ReindexFaults :
             HandleBlockIO("B", b, in_transit, fault, rfault)
                /\ UNCHANGED srv

SpecStore == Init /\ [][NextStore]_vars

\* C22: when add_block returns an error to handle_block, the stored blocks,
\* LAST and the tip of the node are what they were before the call; when
\* reindex returns an error to it, the index is what it was before the call.
C22_FailureLeavesState ==
    [][\A n \in Nodes :
          (res'.op = "handle_block" /\ res'.node = n /\ res'.ret = "err")
          => /\ res'.branch = "add_block" =>
                   /\ db'[n] = db[n]
                   /\ last'[n] = last[n]
                   /\ tip'[n] = tip[n]
             /\ utxo'[n] = utxo[n]]_vars

----------------------------------------------------------------------------
(* Messages a node cannot answer *)

\* the messages to node n that ask for a block or a transaction it does not
\* have, announce nothing, are shorter than the command tag or carry a
\* command that does not exist
BadWires(n) ==
    {w \in PeerWires(n) :
        \/ w.cmd \in {"short", "unknown"}
        \/ w.cmd = "inv" /\ w.items = <<>>
        \/ /\ w.cmd = "getdata"
           /\ \/ w.kind = "block" /\ w.id \notin DOMAIN db[n]
              \/ w.kind = "tx" /\ w.id \notin DOMAIN mempool[n]}

\* C23: once the node has opened its chain, handle_connection returns an
\* error (it does not panic) for every such message, and leaves the chain,
\* the index, the mempool and the directory of the node as they were.
C23_BadMessageIsCaughtError ==
    \A wire \in BadWires("B"), conn \in Conns :
        LET sv == handle_connection(Server("B"), wire, conn, <<>>)
        IN  Started("B") =>
            /\ sv.ret = "err"
            /\ sv.c = Chain("B")
            /\ sv.utxo = utxo["B"]
            /\ sv.mempool = mempool["B"]
            /\ sv.known_nodes = known_nodes["B"]

----------------------------------------------------------------------------
(* The tasks of one node and the RwLock around its Server.  start_server   *)
(* spawns a task per accepted connection that takes the write lock before  *)
(* it reads the stream and holds it until handle_connection returns; the   *)
(* timer task takes the read lock for check_and_update_blockchain_state;   *)
(* the tasks MyApp spawns for add_peer and send_transaction take the write *)
(* lock.  pc[t].at is "idle", "waiting" (for the lock), "reading" (in      *)
(* read_to_end, lock held) or "running" (lock held).                       *)

\* everything but the tasks and the lock
data == <<db, last, tip, utxo, nonce, res, node_address, known_nodes,
          blocks_in_transit, mempool, msgs, sent, ticks>>

\* the messages the peers send on the two connections
LockWires ==
    {[cmd |-> "version", addr_from |-> "Q", version |-> VERSION,
      best_height |-> 0],
     [cmd |-> "unknown"]}

\* the calls of the application
AppCalls == {[call |-> "add_peer", ip |-> "Q"], [call |-> "send_transaction"]}

\* Node B has created its chain and started its server; its peers are
\* outside the model
InitLock ==
    /\ LET c == create_blockchain(WalletAddress("W"))
       IN  /\ db = [A |-> <<>>, B |-> c.db]
           /\ last = [A |-> NoHash, B |-> c.last]
           /\ tip = [A |-> NoHash, B |-> c.tip]
           /\ utxo = [A |-> <<>>, B |-> find_utxo(c.db, c.tip)]
    /\ nonce = 0
    /\ res = Result("init", "B", "ok", "")
    /\ ServerNew([A |-> "none", B |-> "P"])

\* listener.accept() returns a stream and the task for it is spawned: it
\* waits for server.write().  hung says that the peer never closes the
\* socket.
Accept(c, wire, hung) ==
    /\ pc[c].at = "idle"
    /\ pc' = [pc EXCEPT ![c] = [at |-> "waiting",
                                job |-> [wire |-> wire, hung |-> hung]]]
    /\ UNCHANGED <<data, rwlock>>

\* server.write().await returns in task t: nobody holds the lock
AcquireWrite(t) ==
    /\ pc[t].at = "waiting"
    /\ rwlock.w = "none"
    /\ rwlock.r = {}
    /\ rwlock' = [rwlock EXCEPT !.w = t]
    /\ pc' = [pc EXCEPT ![t].at = IF t \in Connections THEN "reading"
                                  ELSE "running"]
    /\ UNCHANGED data

\* server.read().await returns in the timer task: nobody holds the write
\* lock
AcquireRead(t) ==
    /\ pc[t].at = "waiting"
    /\ rwlock.w = "none"
    /\ rwlock' = [rwlock EXCEPT !.r = @ \cup {t}]
    /\ pc' = [pc EXCEPT ![t].at = "running"]
    /\ UNCHANGED data

\* stream.read_to_end returns in handle_connection: the peer has closed the
\* socket
ReadToEnd(c) ==
    /\ pc[c].at = "reading"
    /\ ~pc[c].job.hung
    /\ pc' = [pc EXCEPT ![c].at = "running"]
    /\ UNCHANGED <<data, rwlock>>

\* the rest of handle_connection; the task ends and its guard is dropped
HandleConnection(c) ==
    /\ pc[c].at = "running"
    /\ \E sv \in {handle_connection(Server("B"), pc[c].job.wire, AllUp,
                                    <<>>)} :
          /\ Commit("B", sv, HandlerOf[pc[c].job.wire.cmd])
          /\ msgs' = msgs (+) Written(sv.sent)
    /\ pc' = [pc EXCEPT ![c] = Idle]
    /\ rwlock' = [rwlock EXCEPT !.w = "none"]
    /\ UNCHANGED ticks

\* interval_timer.tick() returns: the timer task waits for server.read()
TimerTick ==
    /\ pc["timer"].at = "idle"
    /\ pc' = [pc EXCEPT !["timer"].at = "waiting"]
    /\ UNCHANGED <<data, rwlock>>

\* check_and_update_blockchain_state under the read lock
TimerRun ==
    /\ pc["timer"].at = "running"
    /\ Tick("B", AllUp)
    /\ pc' = [pc EXCEPT !["timer"] = Idle]
    /\ rwlock' = [rwlock EXCEPT !.r = @ \ {"timer"}]
    /\ UNCHANGED ticks

\* MyApp::add_peer or MyApp::send_transaction: the task waits for
\* server.write()
AppCall(call) ==
    /\ pc["app"].at = "idle"
    /\ pc' = [pc EXCEPT !["app"] = [at |-> "waiting", job |-> call]]
    /\ UNCHANGED <<data, rwlock>>

\* Server::add_peer or Server::send_transaction under the write lock
AppRun ==
    /\ pc["app"].at = "running"
    /\ IF pc["app"].job.call = "add_peer"
       THEN AddPeer("B", pc["app"].job.ip)
       ELSE Broadcast("B", "W", WalletAddress("X"), 4, AllUp)
    /\ pc' = [pc EXCEPT !["app"] = Idle]
    /\ rwlock' = [rwlock EXCEPT !.w = "none"]

NextLock ==
    \/ \E c \in Connections, wire \in LockWires, hung \in BOOLEAN :
          Accept(c, wire, hung)
    \/ \E t \in Connections \cup {"app"} : AcquireWrite(t)
    \/ AcquireRead("timer")
    \/ \E c \in Connections : ReadToEnd(c)
    \/ \E c \in Connections : HandleConnection(c)
    \/ TimerTick
    \/ TimerRun
    \/ \E call \in AppCalls : AppCall(call)
    \/ AppRun

SpecLock == InitLock /\ [][NextLock]_vars

\* The runtime runs every task that can run, the lock is handed to every
\* task that waits for it once it is free often enough, and a peer that
\* does not hang closes its socket
FairLock ==
    /\ SpecLock
    /\ \A t \in Connections \cup {"app"} : SF_vars(AcquireWrite(t))
    /\ SF_vars(AcquireRead("timer"))
    /\ \A c \in Connections : WF_vars(ReadToEnd(c))
    /\ \A c \in Connections : WF_vars(HandleConnection(c))
    /\ WF_vars(TimerRun)
    /\ WF_vars(AppRun)

\* C24: while the task of one accepted connection is reading or handling
\* its message, the task of another accepted connection that waits to
\* start can start.
C24_ParallelService ==
    \A c \in Connections, d \in Connections :
        (/\ c # d
         /\ pc[c].at \in {"reading", "running"}
         /\ pc[d].at = "waiting")
        => ENABLED AcquireWrite(d)

\* C25: whatever connection hangs, every other task that waits for the
\* server (an accepted connection, the timer, a call of the application)
\* gets it in the end.
C25_HungOccupiesOwnTask ==
    \A t \in Tasks : (pc[t].at = "waiting") ~> (pc[t].at # "waiting")

----------------------------------------------------------------------------
(* Coinbase transactions *)

\* the recipients and the data new_coinbase is called with: the miner with
\* no data, the wallet that mines its transfer at once, the genesis block
CoinbaseCalls ==
    {<<MiningAddress(n), "">> : n \in Nodes}
        \cup {<<WalletAddress(k), "reward!">> : k \in Wallets}
        \cup {<<WalletAddress(k), "Genesis Block Reward">> : k \in Wallets}
        \cup {<<FixedAddress, "Genesis Block Reward">>}

\* C31: a transaction new_coinbase builds has one input with an empty
\* previous id and output index -1 and one output of the subsidy, 10, to the
\* recipient, is a coinbase for is_coinbase, and verifies as true with no
\* previous transaction at hand; no transaction new_utxo builds is a coinbase.
C31_CoinbaseShape ==
    /\ \A call \in CoinbaseCalls, rnd \in 0..(nonce + 1) :
          LET tx == new_coinbase(call[1], call[2], rnd)
          IN  /\ Len(tx.vin) = 1
              /\ tx.vin[1].txid = NoHash
              /\ tx.vin[1].vout = -1
              /\ tx.vout = <<[value |-> 10, pub_key_hash |-> DecodeBody(call[1])]>>
              /\ SUBSIDY = 10
              /\ is_coinbase(tx)
              /\ verify(tx, <<>>) = "true"
              /\ verify_transacton(db["A"], tip["A"], tx) = "true"
    /\ \A tx \in Built("A") : ~is_coinbase(tx)

\* C31 (case reached): a block has been mined, and the wallets can build a
\* transfer without inputs as well as one with inputs
C31_Witness ==
    /\ res.op = "mine_block"
    /\ res.ret = "ok"
    /\ \E tx \in Built("A") : tx.vin = <<>>
    /\ \E tx \in Built("A") : Len(tx.vin) >= 1

----------------------------------------------------------------------------
(* The bootstrap node as relay of transactions *)

\* the Tx messages that reach the bootstrap node A: a transfer built on its
\* chain, from any address
RelayWires ==
    {[cmd |-> "tx", addr_from |-> s, transaction |-> tx] :
        s \in Addrs, tx \in Transfers("A")}

InitRelay == EmptyStores /\ ServerNew([A |-> "K", B |-> "none"])

\* The server of the bootstrap node, its directory and its mempool; its
\* peers are outside the model and accept a connection or not
NextRelay ==
    \/ StartupCustom("A", "W") /\ UNCHANGED srv
    \/ \E p \in Addrs : AddPeer("A", p) /\ UNCHANGED tasks
    \/ \E wire \in RelayWires, conn \in Conns :
          Started("A") /\ Arrive("A", wire, conn) /\ UNCHANGED tasks

SpecRelay == InitRelay /\ [][NextRelay]_vars

\* C32: the bootstrap node handling Tx from sender S puts the transaction in
\* its mempool and attempts one connection, carrying Inv(tx) with the id of
\* that transaction, to every peer of its directory other than S and itself,
\* and none to another address.
C32_RelayToOthers ==
    \A wire \in RelayWires, conn \in Conns :
        LET sv     == handle_connection(Server("A"), wire, conn, <<>>)
            others == (DOMAIN known_nodes["A"])
                         \ {node_address["A"], wire.addr_from}
        IN  /\ sv.ret = "ok"
            /\ sv.mempool =
                  (wire.transaction.id :> wire.transaction) @@ mempool["A"]
            /\ {sv.sent[i].to : i \in DOMAIN sv.sent} = others
            /\ Len(sv.sent) = Cardinality(others)
            /\ \A i \in DOMAIN sv.sent :
                  sv.sent[i].data =
                     [cmd |-> "inv", addr_from |-> node_address["A"],
                      kind |-> "tx", items |-> <<wire.transaction.id>>]

\* C32 (case reached): the bootstrap node has relayed a transaction to two
\* peers, one of which refused the connection, with another transaction in
\* its mempool already
C32_Witness ==
    /\ res.op = "handle_tx"
    /\ res.node = "A"
    /\ res.branch = "relay"
    /\ Len(sent) = 2
    /\ \E i \in DOMAIN sent : ~sent[i].ok
    /\ Cardinality(DOMAIN mempool["A"]) >= 2

----------------------------------------------------------------------------
(* Who can spend an output *)

\* hash_pub_key: the public key hash an address of that key encodes
HashPubKey(pub_key) == <<"pkh", pub_key[2]>>

\* What a client other than this program can send: a transaction that
\* refers to output j of the transaction t on the chain of node n, carries
\* the public key of wallet k and pays the value to k, signed with the
\* secret key of k
Theft(n, t, j, k) ==
    LET vin  == <<[txid |-> t.id, vout |-> j - 1, signature |-> <<>>,
                   pub_key |-> PublicKey(k)]>>
        vout == <<TXOutputNew(t.vout[j].value, WalletAddress(k))>>
    IN  sign_transacton(db[n], tip[n],
                        [id |-> TxHash(vin, vout), vin |-> vin,
                         vout |-> vout], k).tx

\* such transactions for the outputs on the chain of n that are not payable
\* to the wallet that signs
Stolen(n) ==
    LET txs == Range(ChainTxs(db[n], tip[n]))
    IN  {Theft(n, x[1], x[2], x[3]) :
            x \in {y \in UNION {{<<t, j, k>> : j \in 1..Len(t.vout),
                                              k \in Wallets} : t \in txs} :
                      ~can_be_unlock_with(y[1].vout[y[2]],
                                          HashPubKey(PublicKey(y[3])))}}

\* C33: a transaction that is no coinbase verifies as true only if the hash
\* of the public key of every input is the recipient hash of the output the
\* input refers to, and mine_block turns down a batch with a transaction
\* signed by a key pair other than the recipient's.
C33_OnlyOwnerSpends ==
    \A tx \in Candidates("A") \cup Stolen("A") :
        LET c   == Chain("A")
            txs == ChainTxs(c.db, c.tip)
        IN  /\ (~is_coinbase(tx) /\ verify_transacton(c.db, c.tip, tx) = "true")
               => \A i \in 1..Len(tx.vin) :
                     HashPubKey(tx.vin[i].pub_key) =
                        find_transaction(txs, tx.vin[i].txid)
                           .vout[tx.vin[i].vout + 1].pub_key_hash
            /\ tx \in Stolen("A") => mine_block(c, Batch(<<tx>>)).ret # "ok"

----------------------------------------------------------------------------
(* Spending an output twice *)

\* the inputs of the transfers on the chain of node n: <<p, i>> is input i of
\* the p-th transaction the iterator yields
ChainInputs(n) ==
    LET txs == ChainTxs(db[n], tip[n])
    IN  UNION {{<<p, i>> : i \in 1..Len(txs[p].vin)} :
                 p \in {q \in 1..Len(txs) : ~is_coinbase(txs[q])}}

\* the output the input at that place refers to
Referenced(n, x) ==
    LET inp == ChainTxs(db[n], tip[n])[x[1]].vin[x[2]]
    IN  <<inp.txid, inp.vout>>

\* C34: on the chain of a node, from the tip to the genesis block, no two
\* inputs of transfers refer to the same output.
C34_NoDoubleSpend ==
    \A n \in Nodes :
        \A x \in ChainInputs(n), y \in ChainInputs(n) :
            x # y => Referenced(n, x) # Referenced(n, y)

----------------------------------------------------------------------------
(* What find_spendable_outputs selects *)

\* the outputs the transfers on the chain of node n refer to
SpentOnChain(n) == {Referenced(n, x) : x \in ChainInputs(n)}

\* C35: every pair <<txid, index>> find_spendable_outputs returns for an
\* address names, in the transaction of that id on the chain, an output that
\* exists at that index, is payable to the address and is referred to by no
\* input on the chain.
C35_SelectedAreOwnedUnspent ==
    \A k \in Wallets, a \in Amounts : \A order \in Orders("A", k) :
        LET pkh == PubKeyHash(k)
            txs == ChainTxs(db["A"], tip["A"])
            r   == find_spendable_outputs(utxo["A"], order, pkh, a)
        IN  \A i \in DOMAIN r.sel :
               LET id == r.sel[i][1]
                   j  == r.sel[i][2]
               IN  /\ TxFound(txs, id)
                   /\ j + 1 \in 1..Len(find_transaction(txs, id).vout)
                   /\ can_be_unlock_with(find_transaction(txs, id).vout[j + 1],
                                         pkh)
                   /\ <<id, j>> \notin SpentOnChain("A")


(* Value created by a transfer *)

\* the total of the values of the outputs outs
RECURSIVE TotalOut(_)
TotalOut(outs) ==
    IF outs = <<>> THEN 0 ELSE Head(outs).value + TotalOut(Tail(outs))

\* the total of the values of the outputs on the chain of node n the inputs
\* vin refer to; an input that refers to no output of the chain counts 0
RECURSIVE TotalIn(_, _)
TotalIn(n, vin) ==
    IF vin = <<>> THEN 0
    ELSE LET txs == ChainTxs(db[n], tip[n])
             x   == Head(vin)
             v   == IF /\ TxFound(txs, x.txid)
                       /\ x.vout + 1 \in 1..Len(find_transaction(txs, x.txid).vout)
                    THEN find_transaction(txs, x.txid).vout[x.vout + 1].value
                    ELSE 0
         IN  v + TotalIn(n, Tail(vin))

\* the total of the values in the index
TotalIndex(index) ==
    SumValues(index,
        UNION {{<<id, i>> : i \in 1..Len(index[id])} : id \in DOMAIN index})

\* the coinbase transactions on the chain of node n
Coinbases(n) ==
    {i \in DOMAIN ChainTxs(db[n], tip[n]) :
        is_coinbase(ChainTxs(db[n], tip[n])[i])}

\* C36: a transaction new_utxo returns, whatever the amount asked for, has
\* an input, has outputs of a value above zero only, and the values of its
\* outputs add up to the values of the outputs its inputs refer to; and the
\* index of A holds the subsidy once for every coinbase on the chain of A.
C36_NoValueCreated ==
    Started("A") =>
        /\ \A tx \in Built("A") :
              /\ Len(tx.vin) >= 1
              /\ \A i \in DOMAIN tx.vout : tx.vout[i].value > 0
              /\ TotalOut(tx.vout) = TotalIn("A", tx.vin)
        /\ TotalIndex(utxo["A"]) = SUBSIDY * Cardinality(Coinbases("A"))

----------------------------------------------------------------------------
(* A transaction in two blocks *)

\* the ids of the transactions of the block b
IdsOf(b) == {b.transactions[i].id : i \in DOMAIN b.transactions}

\* C37: on the chain of a node no transaction id is in two blocks: what the
\* miner loop has put into a block it mined, a later run of the loop, started
\* by a later Tx message, does not put into a block again.
C37_MinedOnce ==
    \A n \in Nodes :
        LET blocks == iter(db[n], tip[n])
        IN  \A i \in DOMAIN blocks, j \in DOMAIN blocks :
                i # j => IdsOf(blocks[i]) \cap IdsOf(blocks[j]) = {}

----------------------------------------------------------------------------
(* Blocks announced while a node fetches a chain *)

\* the Inv message a miner outside the model sends to its peers for the
\* block it has just mined (handle_tx: send_inv with the one hash)
MinedInv ==
    [cmd |-> "inv", addr_from |-> "Q", kind |-> "block",
     items |-> <<UnknownHash>>]

\* the announcement of a mined block reaches node B
Announced ==
    /\ Arrive("B", MinedInv, AllUp)
    /\ UNCHANGED tasks

\* Node B fetches the chain of the bootstrap node A while a miner
\* announces a block to it
NextAnnounce ==
    \/ \E n \in Nodes : TimerFires(n)
    \/ Handled
    \/ Announced

SpecAnnounce == InitBoot /\ [][NextAnnounce]_vars

\* the timer keeps firing and every message written is handled; nothing
\* obliges a miner to announce a block
FairAnnounce ==
    SpecAnnounce /\ WF_vars(TimerFires("B")) /\ WF_vars(Handled)

\* the hashes of the longest chain A offers
Offered == DOMAIN Grown("A", MaxHeight).db

\* node B waits with the request for the block of hash h
InTransit(h) == h \in Range(blocks_in_transit["B"])

\* a GetData for the block of hash h is written by this step or in flight
Requested(h) ==
    \/ \E i \in DOMAIN sent :
          /\ sent[i].data.cmd = "getdata"
          /\ sent[i].data.id = h
    \/ \E m \in BagToSet(msgs) :
          /\ m.data.cmd = "getdata"
          /\ m.data.id = h

\* C38: no step takes a hash out of the queue of blocks in transit of B
\* but the step that requests its block, a second Inv included, and every
\* hash of the queue is requested in the end or its block is in the store.
C38_NoAnnouncedBlockLost ==
    /\ [][\A h \in Range(blocks_in_transit["B"]) :
             \/ h \in Range(blocks_in_transit'["B"])
             \/ Requested(h)'
             \/ h \in DOMAIN db'["B"]]_vars
    /\ \A h \in Offered :
          InTransit(h) ~> (Requested(h) \/ h \in DOMAIN db["B"])

----------------------------------------------------------------------------
(* LAST and the tip *)

MineBlockFaults ==
    {"none", "get LAST", "get_best_height", "insert", "insert LAST", "flush"}

\* Blockchain::mine_block, statement by statement, with the call fault
\* returning an error if it is reached: the tip is assigned after the flush
mine_block_io(c, transactions, fault) ==
    LET v        == VerifyBatch(c, transactions, 1)
        newblock == NewBlock(transactions, c.last,
                             get_best_height(c.db, c.last) + 1)
        d        == (newblock.hash :> newblock) @@ c.db
    IN  IF v # "true"
        THEN [ret |-> IF v = "panic" THEN "panic" ELSE "err", c |-> c]
        ELSE IF fault = "get LAST" THEN [ret |-> "err", c |-> c]
        ELSE IF c.last = NoHash THEN [ret |-> "panic", c |-> c]
        ELSE IF fault \in {"get_best_height", "insert"}
        THEN [ret |-> "err", c |-> c]
        ELSE IF fault = "insert LAST"
        THEN [ret |-> "err", c |-> [c EXCEPT !.db = d]]
        ELSE IF fault = "flush"
        THEN [ret |-> "err", c |-> [c EXCEPT !.db = d, !.last = newblock.hash]]
        ELSE [ret |-> "ok",
              c |-> [db |-> d, last |-> newblock.hash, tip |-> newblock.hash]]

\* the miner of node n on a store that can fail: a coinbase is mined, the
\* index is rebuilt when mine_block returned the block
MineBlockIO(n, fault) ==
    /\ Started(n)
    /\ Mined < MaxMined
    /\ \E m \in {mine_block_io(Chain(n),
                    <<new_coinbase(MiningAddress(n), "", nonce + 1)>>,
                    fault)} :
          /\ SetChain(n, m.c)
          /\ res' = Result("mine_block", n, m.ret, fault)
          /\ nonce' = IF m.c.db # db[n] THEN nonce + 1 ELSE nonce
          /\ utxo' = [utxo EXCEPT ![n] = IF m.ret = "ok"
                                          THEN find_utxo(m.c.db, m.c.tip)
                                          ELSE @]

\* Node A mines and node B receives the blocks of A, both on stores that
\* can fail
NextTip ==
    \/ \E n \in Nodes : Startup(n) /\ UNCHANGED srv
    \/ \E fault \in MineBlockFaults : MineBlockIO("A", fault) /\ UNCHANGED srv
    \/ \E b \in Stored, fault \in AddBlockFaults :
          HandleBlockIO("B", b, FALSE, fault, "none") /\ UNCHANGED srv

SpecTip == Init /\ [][NextTip]_vars

\* C39: whatever new, mine_block and add_block returned, LAST names a
\* block of the store, the tip in memory is LAST, and get_best_height is
\* the height of the block the iterator starts from.
C39_TipIsLast ==
    \A n \in Nodes :
        /\ tip[n] = last[n]
        /\ last[n] # NoHash =>
              /\ last[n] \in DOMAIN db[n]
              /\ BestHeight(n) = iter(db[n], tip[n])[1].height

----------------------------------------------------------------------------
(* The four nested locks.  The Server is behind a tokio RwLock, its inner  *)
(* state behind a second one, the UTXOSet behind a third and the           *)
(* Blockchain behind a fourth.  A tokio RwLock serves its waiters first in  *)
(* first out: a read is granted at once only when nobody writes and nobody  *)
(* waits.  Here pc[t] is the place of task t in the lock operations of its  *)
(* job, and rwlock[l] the writer, the readers and the waiters of lock l.    *)

Locks == {"server", "inner", "utxo", "chain"}

\* the task of start_server, the timer task and a connection task it
\* spawns, a task MyApp spawns for a call
LockTasks == {"start", "timer", "conn", "app"}

R(l) == [op |-> "acq", lock |-> l, mode |-> "r"]

W(l) == [op |-> "acq", lock |-> l, mode |-> "w"]

Drop(l) == [op |-> "rel", lock |-> l, mode |-> ""]

\* Server::get_best_height: the three guards of the expression live to the
\* end of the statement
BestHeightLocks ==
    <<R("inner"), R("utxo"), R("chain"),
      Drop("chain"), Drop("utxo"), Drop("inner")>>

\* Server::send_data: the counter of the peer is written under inner.write()
SendDataLocks == <<W("inner"), Drop("inner")>>

\* the lock operations of a job, in the order of the code
Programme(job) ==
    CASE job = "start_server" ->
           \* bind(&server.read().await.node_address), then println! with
           \* server.read().await twice in one statement
           <<R("server"), Drop("server"),
             R("server"), R("server"), Drop("server"), Drop("server")>>
      [] job = "timer" ->
           \* server.read() around check_and_update_blockchain_state:
           \* get_best_height, the keys of known_nodes, send_version
           <<R("server")>> \o BestHeightLocks
              \o <<R("inner"), Drop("inner")>>
              \o BestHeightLocks \o SendDataLocks
              \o <<Drop("server")>>
      [] job = "handle_block" ->
           \* server.write() around handle_connection: add_block,
           \* get_in_transit, utxo_reindex (reindex reads the chain)
           <<W("server"),
             W("inner"), W("utxo"), W("chain"),
             Drop("chain"), Drop("utxo"), Drop("inner"),
             R("inner"), Drop("inner"),
             W("inner"), W("utxo"), R("chain"),
             Drop("chain"), Drop("utxo"), Drop("inner"),
             Drop("server")>>
      [] job = "add_peer" ->
           <<W("server"), W("inner"), Drop("inner"), Drop("server")>>
      [] job = "send_transaction" ->
           \* server.write() around Server::send_transaction:
           \* get_known_nodes twice, send_tx
           <<W("server"), R("inner"), Drop("inner"), R("inner"),
             Drop("inner")>> \o SendDataLocks \o <<Drop("server")>>
      [] OTHER ->
           \* calculate_new_balances
           <<R("utxo"), Drop("utxo")>>

AppJobs == {"add_peer", "send_transaction", "balances"}

JobsOf(t) ==
    CASE t = "start" -> {"start_server"}
      [] t = "timer" -> {"timer"}
      [] t = "conn"  -> {"handle_block"}
      [] OTHER       -> AppJobs

NotSpawned == [at |-> 0, job |-> "none"]

NoLock == [w |-> "none", r |-> <<>>, q |-> <<>>]

\* MyApp::initialize_async has made the Server and is about to spawn
\* start_server; the stores are those of InitLock
InitNest ==
    /\ LET c == create_blockchain(WalletAddress("W"))
       IN  /\ db = [A |-> <<>>, B |-> c.db]
           /\ last = [A |-> NoHash, B |-> c.last]
           /\ tip = [A |-> NoHash, B |-> c.tip]
           /\ utxo = [A |-> <<>>, B |-> find_utxo(c.db, c.tip)]
    /\ nonce = 0
    /\ res = Result("init", "B", "ok", "")
    /\ node_address = [A |-> "none", B |-> "P"]
    /\ known_nodes = [n \in Nodes |-> (KNOWN_NODE1 :> 0)]
    /\ blocks_in_transit = [n \in Nodes |-> <<>>]
    /\ mempool = [n \in Nodes |-> <<>>]
    /\ msgs = EmptyBag
    /\ sent = <<>>
    /\ ticks = [n \in Nodes |-> 0]
    /\ pc = [t \in LockTasks |-> NotSpawned]
    /\ rwlock = [l \in Locks |-> NoLock]

\* the operation task t is at
OpOf(t) == Programme(pc[t].job)[pc[t].at]

Running(t) == pc[t].at \in 1..Len(Programme(pc[t].job))

\* task t is in the queue of lock l
Queued(t, l) == \E i \in DOMAIN rwlock[l].q : rwlock[l].q[i].t = t

Waiting(t) == \E l \in Locks : Queued(t, l)

\* the lock lk can give a guard of that mode to one more task
Compatible(lk, mode) ==
    /\ lk.w = "none"
    /\ mode = "w" => lk.r = <<>>

Granted(lk, t, mode) ==
    IF mode = "w" THEN [lk EXCEPT !.w = t] ELSE [lk EXCEPT !.r = Append(@, t)]

\* the waiters at the head of the queue get their guards while they can
RECURSIVE Serve(_)
Serve(lk) ==
    IF lk.q # <<>> /\ Compatible(lk, Head(lk.q).mode)
    THEN Serve(Granted([lk EXCEPT !.q = Tail(@)], Head(lk.q).t,
                       Head(lk.q).mode))
    ELSE lk

\* the sequence s without its first t
RECURSIVE Minus(_, _)
Minus(s, t) ==
    IF s = <<>> THEN <<>>
    ELSE IF Head(s) = t THEN Tail(s)
    ELSE <<Head(s)>> \o Minus(Tail(s), t)

\* task t is spawned with a job: start_server by initialize_async, the
\* timer and the connection tasks by start_server after its println!, the
\* calls of MyApp at any time after initialize_async spawned start_server
Spawn(t, job) ==
    /\ job \in JobsOf(t)
    /\ ~Running(t)
    /\ t = "start" => pc[t].at = 0
    /\ t # "start" => pc["start"].job = "start_server"
    /\ t \in {"timer", "conn"} => ~Running("start")
    /\ pc' = [pc EXCEPT ![t] = [at |-> 1, job |-> job]]
    /\ UNCHANGED <<data, rwlock>>

\* read() or write() of task t returns at once
Acquire(t) ==
    /\ Running(t) /\ ~Waiting(t)
    /\ OpOf(t).op = "acq"
    /\ rwlock[OpOf(t).lock].q = <<>>
    /\ Compatible(rwlock[OpOf(t).lock], OpOf(t).mode)
    /\ rwlock' = [rwlock EXCEPT ![OpOf(t).lock] =
                     Granted(@, t, OpOf(t).mode)]
    /\ pc' = [pc EXCEPT ![t].at = @ + 1]
    /\ UNCHANGED data

\* read() or write() of task t has to wait: the task joins the queue
Enqueue(t) ==
    /\ Running(t) /\ ~Waiting(t)
    /\ OpOf(t).op = "acq"
    /\ \/ rwlock[OpOf(t).lock].q # <<>>
       \/ ~Compatible(rwlock[OpOf(t).lock], OpOf(t).mode)
    /\ rwlock' = [rwlock EXCEPT ![OpOf(t).lock].q =
                     Append(@, [t |-> t, mode |-> OpOf(t).mode])]
    /\ UNCHANGED <<data, pc>>

\* a guard of task t is dropped; the waiters that can be served get their
\* guards and go on
Release(t) ==
    /\ Running(t) /\ ~Waiting(t)
    /\ OpOf(t).op = "rel"
    /\ LET l  == OpOf(t).lock
           lk == IF rwlock[l].w = t THEN [rwlock[l] EXCEPT !.w = "none"]
                 ELSE [rwlock[l] EXCEPT !.r = Minus(@, t)]
       IN  /\ rwlock' = [rwlock EXCEPT ![l] = Serve(lk)]
           /\ pc' = [u \in LockTasks |->
                       IF u = t \/ (Queued(u, l) /\
                                    \A i \in DOMAIN Serve(lk).q :
                                        Serve(lk).q[i].t # u)
                       THEN [pc[u] EXCEPT !.at = @ + 1]
                       ELSE pc[u]]
    /\ UNCHANGED data

NextNest ==
    \/ \E t \in LockTasks, job \in AppJobs \cup {"start_server", "timer",
                                                 "handle_block"} :
          Spawn(t, job)
    \/ \E t \in LockTasks : Acquire(t)
    \/ \E t \in LockTasks : Enqueue(t)
    \/ \E t \in LockTasks : Release(t)

SpecNest == InitNest /\ [][NextNest]_vars

\* task t holds a guard of lock l
Holds(t, l) == rwlock[l].w = t \/ t \in Range(rwlock[l].r)

\* task t cannot get its guard before task u has moved: u waits ahead of t
\* for the same lock, or holds a guard of it that excludes the one t asks
WaitsFor(t, u) ==
    \E l \in Locks : \E i \in DOMAIN rwlock[l].q :
        /\ rwlock[l].q[i].t = t
        /\ \/ \E j \in 1..(i - 1) : rwlock[l].q[j].t = u
           \/ rwlock[l].w = u
           \/ rwlock[l].q[i].mode = "w" /\ u \in Range(rwlock[l].r)

\* C40: in no state is there a set of tasks each of which waits for a lock
\* and cannot get it before a task of the set, itself included, has moved.
C40_NoDeadlock ==
    ~ \E S \in (SUBSET LockTasks) \ {{}} :
          \A t \in S : Waiting(t) /\ \E u \in S : WaitsFor(t, u)
====
